---- MODULE Spec2Model ----
(***************************************************************************)
(* Model of the spectral coaddition code of prospect                       *)
(* (py/prospect/utils_specviewer.py: _coadd and coadd_targets) and of the *)
(* model stitching and display code of py/prospect/plotframes.py and      *)
(* utils_specviewer.py (create_model, plotspectra, make_cds_spectra,       *)
(* match_zcat_to_spectra, specviewer_selection, miniplot_spectrum).        *)
(*                                                                         *)
(* Array values are exact rationals <<numerator, denominator>> in lowest   *)
(* terms; a zero denominator stands for the non-finite results of a        *)
(* division by zero (<<0,0>> NaN, <<1,0>> +Inf, <<-1,0>> -Inf).  Rounding  *)
(* of floating point is not modelled.  Arrays are sequences, indexed from  *)
(* 1: row i of the model is row i-1 of the numpy array.                    *)
(***************************************************************************)
EXTENDS Integers, Sequences, FiniteSets, TLC

VARIABLES
    pc,         \* position of the caller
    cin,        \* arguments (wave, flux, ivar, rdat) of a direct _coadd call
    cout,       \* result of the direct _coadd call
    spectra,    \* the Spectra object handed to coadd_targets (numpy arrays are shared with the caller)
    orig,       \* the values of that object before the call
    targetids,  \* the targetids argument of coadd_targets
    out,        \* the Spectra object returned by coadd_targets
    out2,       \* the Spectra object returned by coadd_targets(out)
    zbest,      \* the zbest table handed to create_model
    model,      \* what create_model returned, and how many model rows it computed
    args,       \* the other arguments of the call (zcatalog, model, cuts, with_noise, ...)
    ret,        \* what the call returned
    raised      \* name of the exception that ended the call, "" if none

vars == <<pc, cin, cout, spectra, orig, targetids, out, out2, zbest, model, args, ret, raised>>

----------------------------------------------------------------------------
\* Bounds of the model

\* largest number of exposures handed to a direct _coadd call
MaxSpec == 2

\* largest number of rows (exposures of all targets) of a Spectra object
MaxRows == 3

\* flux values of a direct _coadd call
FluxVals == {10, 12}

\* inverse variances of a direct _coadd call
IvarVals == {0, 1, 2}

\* values of the resolution diagonal of one exposure
RdatVals == {1, 2}

----------------------------------------------------------------------------
\* Arithmetic of numpy float arrays

Abs(x) == IF x < 0 THEN -x ELSE x

Sign(x) == IF x < 0 THEN -1 ELSE IF x = 0 THEN 0 ELSE 1

RECURSIVE GCD(_, _)
GCD(a, b) == IF b = 0 THEN a ELSE GCD(b, a % b)

\* the rational n/d in lowest terms, denominator >= 0
Norm(n, d) ==
    IF d = 0 THEN <<Sign(n), 0>>
    ELSE LET g == GCD(Abs(n), Abs(d))
             s == Sign(d)
         IN  <<(s * n) \div g, (s * d) \div g>>

R(n) == <<n, 1>>

Zero == R(0)

IsFinite(x) == x[2] # 0

\* x + y
RAdd(x, y) ==
    IF x[2] = 0 /\ y[2] = 0
    THEN (IF x = y THEN x ELSE <<0, 0>>)
    ELSE Norm(x[1] * y[2] + y[1] * x[2], x[2] * y[2])

\* x * y
RMul(x, y) == Norm(x[1] * y[1], x[2] * y[2])

\* x / y ; x / 0 is +-Inf and 0 / 0 is NaN, as numpy computes them
RDiv(x, y) == Norm(x[1] * y[2], x[2] * y[1])

\* elementwise operations on 1D arrays of the same length
VAdd(a, b) == [k \in DOMAIN a |-> RAdd(a[k], b[k])]

VMul(a, b) == [k \in DOMAIN a |-> RMul(a[k], b[k])]

VDiv(a, b) == [k \in DOMAIN a |-> RDiv(a[k], b[k])]

\* np.zeros(n)
Zeros(n) == [k \in 1..n |-> Zero]

\* outmask += mask in place of outmask |= mask
BitOrAsSum(a, b) == a + b

\* bitwise OR of two non-negative integers
RECURSIVE BitOr(_, _)
BitOr(a, b) ==
    IF a = 0 THEN b
    ELSE IF b = 0 THEN a
    ELSE (IF a % 2 = 1 \/ b % 2 = 1 THEN 1 ELSE 0) + 2 * BitOr(a \div 2, b \div 2)

----------------------------------------------------------------------------
\* _coadd(wave, flux, ivar, rdat)

\* the accumulators before the loop over the exposures
CoaddZeros(flux, rdat) ==
    [unweightedflux |-> Zeros(Len(flux[1])),
     weightedflux   |-> Zeros(Len(flux[1])),
     weights        |-> Zeros(Len(flux[1])),
     outrdat        |-> [d \in DOMAIN rdat[1] |-> Zeros(Len(rdat[1][d]))]]

\* the loop body with  weightedflux = flux[i] * ivar[i]  in place of  +=
CoaddStepOverwrite(acc, flux, ivar, rdat, i) ==
    [unweightedflux |-> VAdd(acc.unweightedflux, flux[i]),
     weightedflux   |-> VMul(flux[i], ivar[i]),
     weights        |-> VAdd(acc.weights, ivar[i]),
     outrdat        |-> [d \in DOMAIN acc.outrdat |->
                            VAdd(acc.outrdat[d], VMul(rdat[i][d], ivar[i]))]]

\* the loop body with weightedflux += flux[i], the weights left out
CoaddStepUnweighted(acc, flux, ivar, rdat, i) ==
    [unweightedflux |-> VAdd(acc.unweightedflux, flux[i]),
     weightedflux   |-> VAdd(acc.weightedflux, flux[i]),
     weights        |-> VAdd(acc.weights, ivar[i]),
     outrdat        |-> [d \in DOMAIN acc.outrdat |->
                            VAdd(acc.outrdat[d], VMul(rdat[i][d], ivar[i]))]]

\* the body of the loop for exposure i
CoaddStep(acc, flux, ivar, rdat, i) ==
    [unweightedflux |-> VAdd(acc.unweightedflux, flux[i]),
     weightedflux   |-> VAdd(acc.weightedflux, VMul(flux[i], ivar[i])),
     weights        |-> VAdd(acc.weights, ivar[i]),
     outrdat        |-> [d \in DOMAIN acc.outrdat |->
                            VAdd(acc.outrdat[d], VMul(rdat[i][d], ivar[i]))]]

\* the accumulators after exposures 1..i
RECURSIVE CoaddLoop(_, _, _, _)
CoaddLoop(flux, ivar, rdat, i) ==
    IF i = 0 THEN CoaddZeros(flux, rdat)
    ELSE CoaddStep(CoaddLoop(flux, ivar, rdat, i - 1), flux, ivar, rdat, i)

\* isbad = (weights == 0), as the numbers 0 and 1
IsBad(weights) == [k \in DOMAIN weights |-> IF weights[k] = Zero THEN R(1) ELSE Zero]

\* outflux without the line  outflux[isbad] = unweightedflux[isbad] / nspec
CoaddFluxNoFallback(acc, nspec) ==
    VDiv(acc.weightedflux, VAdd(acc.weights, IsBad(acc.weights)))

\* outflux with the fallback  outflux[isbad] = unweightedflux[isbad]
CoaddFluxFallbackSum(acc, nspec) ==
    LET isbad   == IsBad(acc.weights)
        outflux == VDiv(acc.weightedflux, VAdd(acc.weights, isbad))
    IN  [k \in DOMAIN outflux |->
            IF isbad[k] = R(1) THEN acc.unweightedflux[k] ELSE outflux[k]]

\* outflux: the weighted mean, the plain mean where isbad
CoaddFlux(acc, nspec) ==
    LET isbad   == IsBad(acc.weights)
        outflux == VDiv(acc.weightedflux, VAdd(acc.weights, isbad))
    IN  [k \in DOMAIN outflux |->
            IF isbad[k] = R(1) THEN RDiv(acc.unweightedflux[k], R(nspec))
            ELSE outflux[k]]

\* outrdat without the line  outrdat /= (weights + isbad)
CoaddRdatNoDivide(acc) == acc.outrdat

\* outrdat /= (weights + isbad)
CoaddRdat(acc) ==
    [d \in DOMAIN acc.outrdat |->
        VDiv(acc.outrdat[d], VAdd(acc.weights, IsBad(acc.weights)))]

\* _coadd with  outivar = weights + isbad
CoaddIvarFallback(wave, flux, ivar, rdat) ==
    LET nspec == Len(flux)
        acc   == CoaddLoop(flux, ivar, rdat, nspec)
    IN  [wave |-> wave,
         flux |-> CoaddFlux(acc, nspec),
         ivar |-> VAdd(acc.weights, IsBad(acc.weights)),
         rdat |-> CoaddRdat(acc)]

_coadd(wave, flux, ivar, rdat) ==
    LET nspec == Len(flux)
        acc   == CoaddLoop(flux, ivar, rdat, nspec)
    IN  [wave |-> wave,
         flux |-> CoaddFlux(acc, nspec),
         ivar |-> acc.weights,
         rdat |-> CoaddRdat(acc)]

----------------------------------------------------------------------------
\* coadd_targets(spectra, targetids)

\* spectra.target_ids(): the distinct TARGETIDs of the first n fibermap rows,
\* in the order of their first row
RECURSIVE UniqueIds(_, _)
UniqueIds(fibermap, n) ==
    IF n = 0 THEN <<>>
    ELSE IF \E j \in 1..(n - 1) : fibermap[j].TARGETID = fibermap[n].TARGETID
         THEN UniqueIds(fibermap, n - 1)
         ELSE Append(UniqueIds(fibermap, n - 1), fibermap[n].TARGETID)

target_ids(sp) == UniqueIds(sp.fibermap, Len(sp.fibermap))

\* spectra.num_spectra() in place of spectra.num_targets()
NumSpectra(sp) == Len(sp.fibermap)

\* spectra.num_targets()
num_targets(sp) == Cardinality({sp.fibermap[j].TARGETID : j \in DOMAIN sp.fibermap})

\* np.where(fibermap['TARGETID'] == targetid)[0] among the first n rows: ascending row indices
RECURSIVE WhereUpTo(_, _, _)
WhereUpTo(fibermap, targetid, n) ==
    IF n = 0 THEN <<>>
    ELSE IF fibermap[n].TARGETID = targetid
         THEN Append(WhereUpTo(fibermap, targetid, n - 1), n)
         ELSE WhereUpTo(fibermap, targetid, n - 1)

\* the row selection with the comparison to targetid left out: every row
WhereAny(fibermap, targetid) == [j \in 1..Len(fibermap) |-> j]

Where(fibermap, targetid) == WhereUpTo(fibermap, targetid, Len(fibermap))

\* a[ii]: the rows ii of a, copied
TakeRows(a, ii) == [j \in DOMAIN ii |-> a[ii[j]]]

BandSet(sp) == {sp.bands[c] : c \in DOMAIN sp.bands}

\* the output arrays before the loop over the targets, and the input mask arrays
\* (which the loop reaches through views)
OutputZeros(sp, ntargets) ==
    [inmask   |-> sp.mask.arr,
     flux     |-> [ch \in BandSet(sp) |-> [i \in 1..ntargets |-> Zeros(Len(sp.wave[ch]))]],
     ivar     |-> [ch \in BandSet(sp) |-> [i \in 1..ntargets |-> Zeros(Len(sp.wave[ch]))]],
     rdat     |-> [ch \in BandSet(sp) |-> [i \in 1..ntargets |->
                     [d \in DOMAIN sp.rdat[ch][1] |-> Zeros(Len(sp.wave[ch]))]]],
     mask     |-> IF sp.mask.isNone THEN sp.mask.arr
                  ELSE [ch \in BandSet(sp) |-> [i \in 1..ntargets |->
                          [k \in DOMAIN sp.wave[ch] |-> 0]]],
     fibermap |-> <<>>,
     raised   |-> ""]

\* outmask after  outmask = mask[ii[0]]; outmask |= mask[ii[1]]; ...; outmask |= mask[ii[j-1]]
RECURSIVE MaskOrLoop(_, _, _)
MaskOrLoop(m, ii, j) ==
    IF j = 1 THEN m[ii[1]]
    ELSE LET outmask == MaskOrLoop(m, ii, j - 1)
         IN  [k \in DOMAIN outmask |-> BitOr(outmask[k], m[ii[j]][k])]

\* the input mask arrays after the mask of target rows ii is combined in channel ch:
\* outmask is a view of row ii[0] of the input, so |= writes into the input
MaskAfterOr(sp, inmask, ii, ch) ==
    IF Len(ii) > 1 /\ ~sp.mask.isNone
    THEN [inmask EXCEPT ![ch][ii[1]] = MaskOrLoop(inmask[ch], ii, Len(ii))]
    ELSE inmask

\* the loop body without the branch for a single exposure
ChannelStepAlwaysCoadd(sp, st, i, ii, ch, ntargets) ==
    LET co      == _coadd(sp.wave[ch], TakeRows(sp.flux[ch], ii),
                          TakeRows(sp.ivar[ch], ii), TakeRows(sp.rdat[ch], ii))
        inmask  == MaskAfterOr(sp, st.inmask, ii, ch)
    IN  IF i > ntargets
        THEN [st EXCEPT !.inmask = inmask, !.raised = "IndexError"]
        ELSE [st EXCEPT !.inmask = inmask,
                        !.flux[ch][i] = co.flux,
                        !.ivar[ch][i] = co.ivar,
                        !.rdat[ch][i] = co.rdat,
                        !.mask = IF sp.mask.isNone THEN @
                                 ELSE [@ EXCEPT ![ch][i] = inmask[ch][ii[1]]]]

\* the body of the loop over the channels, for target number i with rows ii
ChannelStep(sp, st, i, ii, ch, ntargets) ==
    LET co      == _coadd(sp.wave[ch], TakeRows(sp.flux[ch], ii),
                          TakeRows(sp.ivar[ch], ii), TakeRows(sp.rdat[ch], ii))
        outflux == IF Len(ii) > 1 THEN co.flux ELSE sp.flux[ch][ii[1]]
        outivar == IF Len(ii) > 1 THEN co.ivar ELSE sp.ivar[ch][ii[1]]
        outrdat == IF Len(ii) > 1 THEN co.rdat ELSE sp.rdat[ch][ii[1]]
        inmask  == MaskAfterOr(sp, st.inmask, ii, ch)
    IN  IF i > ntargets
        THEN [st EXCEPT !.inmask = inmask, !.raised = "IndexError"]
        ELSE [st EXCEPT !.inmask = inmask,
                        !.flux[ch][i] = outflux,
                        !.ivar[ch][i] = outivar,
                        !.rdat[ch][i] = outrdat,
                        !.mask = IF sp.mask.isNone THEN @
                                 ELSE [@ EXCEPT ![ch][i] = inmask[ch][ii[1]]]]

\* the loop over the channels 1..c
RECURSIVE ChannelLoop(_, _, _, _, _, _)
ChannelLoop(sp, st, i, ii, c, ntargets) ==
    IF c = 0 THEN st
    ELSE LET Body(prev) == IF prev.raised # "" THEN prev
                           ELSE ChannelStep(sp, prev, i, ii, sp.bands[c], ntargets)
         IN  Body(ChannelLoop(sp, st, i, ii, c - 1, ntargets))

\* the body of the loop over the targets; ii[0] of an empty ii raises IndexError
TargetStep(sp, st, tids, i, ntargets) ==
    LET ii == Where(sp.fibermap, tids[i])
    IN  IF Len(ii) = 0 THEN [st EXCEPT !.raised = "IndexError"]
        ELSE ChannelLoop(sp, [st EXCEPT !.fibermap = Append(@, sp.fibermap[ii[1]])],
                         i, ii, Len(sp.bands), ntargets)

\* the loop over the targets 1..i
RECURSIVE TargetLoop(_, _, _, _, _)
TargetLoop(sp, st, tids, i, ntargets) ==
    IF i = 0 THEN st
    ELSE LET Body(prev) == IF prev.raised # "" THEN prev
                           ELSE TargetStep(sp, prev, tids, i, ntargets)
         IN  Body(TargetLoop(sp, st, tids, i - 1, ntargets))

\* coadd_targets that hands the wavelengths of the first band to every band
CoaddTargetsFirstWave(sp, tidsarg) ==
    LET tids     == IF tidsarg.isNone THEN target_ids(sp) ELSE tidsarg.ids
        ntargets == num_targets(sp)
        st       == TargetLoop(sp, OutputZeros(sp, ntargets), tids, Len(tids), ntargets)
    IN  [result  |-> [bands    |-> sp.bands,
                      wave     |-> [ch \in BandSet(sp) |-> sp.wave[sp.bands[1]]],
                      flux     |-> st.flux,
                      ivar     |-> st.ivar,
                      mask     |-> [isNone |-> sp.mask.isNone, arr |-> st.mask],
                      rdat     |-> st.rdat,
                      fibermap |-> st.fibermap],
         spectra |-> [sp EXCEPT !.mask.arr = st.inmask],
         raised  |-> st.raised]

\* result: the returned Spectra; spectra: the input object after the call;
\* raised: the exception that ended the call
coadd_targets(sp, tidsarg) ==
    LET tids     == IF tidsarg.isNone THEN target_ids(sp) ELSE tidsarg.ids
        ntargets == num_targets(sp)
        st       == TargetLoop(sp, OutputZeros(sp, ntargets), tids, Len(tids), ntargets)
    IN  [result  |-> [bands    |-> sp.bands,
                      wave     |-> sp.wave,
                      flux     |-> st.flux,
                      ivar     |-> st.ivar,
                      mask     |-> [isNone |-> sp.mask.isNone, arr |-> st.mask],
                      rdat     |-> st.rdat,
                      fibermap |-> st.fibermap],
         spectra |-> [sp EXCEPT !.mask.arr = st.inmask],
         raised  |-> st.raised]

----------------------------------------------------------------------------
\* The objects of the model before any call

NoResult == [wave |-> <<>>, flux |-> <<>>, ivar |-> <<>>, rdat |-> <<>>]

NoArgs == [wave |-> <<>>, flux |-> <<>>, ivar |-> <<>>, rdat |-> <<>>]

NoSpectra ==
    [bands |-> <<>>, wave |-> <<>>, flux |-> <<>>, ivar |-> <<>>,
     mask |-> [isNone |-> TRUE, arr |-> <<>>], rdat |-> <<>>, fibermap |-> <<>>]

NoMask == [isNone |-> TRUE, arr |-> <<>>]

NoTargetids == [isNone |-> TRUE, ids |-> <<>>]

NoModel == [model_wave |-> <<>>, mflux |-> <<>>, computed |-> 0]

NoKeywords == [none |-> TRUE]

NoReturn == [none |-> TRUE]

----------------------------------------------------------------------------
\* Direct calls of _coadd on bounded inputs

\* the wavelength grid of a direct _coadd call
CoaddWave == <<R(1), R(2)>>

\* 1D arrays of values of S on that grid
Rows(S) == [DOMAIN CoaddWave -> {R(v) : v \in S}]

\* the resolution data of one exposure: one diagonal, the same value at every sample
RdatRows == {<<[k \in DOMAIN CoaddWave |-> R(v)]>> : v \in RdatVals}

InitCoadd ==
    /\ pc = "coadd_start"
    /\ \E nspec \in 1..MaxSpec :
         \E flux \in [1..nspec -> Rows(FluxVals)],
            ivar \in [1..nspec -> Rows(IvarVals)],
            rdat \in [1..nspec -> RdatRows] :
           cin = [wave |-> CoaddWave,
                  flux |-> flux, ivar |-> ivar, rdat |-> rdat]
    /\ cout = NoResult
    /\ spectra = NoSpectra
    /\ orig = NoSpectra
    /\ targetids = NoTargetids
    /\ out = NoSpectra
    /\ out2 = NoSpectra
    /\ zbest = <<>>
    /\ model = NoModel
    /\ args = NoKeywords
    /\ ret = NoReturn
    /\ raised = ""

CallCoadd ==
    /\ pc = "coadd_start"
    /\ cout' = _coadd(cin.wave, cin.flux, cin.ivar, cin.rdat)
    /\ pc' = "coadd_done"
    /\ UNCHANGED <<cin, spectra, orig, targetids, out, out2, zbest, model, args, ret, raised>>

NextCoadd == CallCoadd

SpecCoadd == InitCoadd /\ [][NextCoadd]_vars

----------------------------------------------------------------------------
\* Calls of coadd_targets on bounded Spectra objects

Bands == <<"b", "r">>

\* the wavelength grid of each band
Wave == [ch \in {"b", "r"} |-> IF ch = "b" THEN <<R(1), R(2)>> ELSE <<R(3)>>]

\* the flux of exposure row i: rows 1 and 2 are [10,20,30] and [12,18,32] over the two bands
FluxOf(ch, i) ==
    IF ch = "b" THEN <<R(10 + 2 * (i - 1)), R(20 - 2 * (i - 1))>>
    ELSE <<R(30 + 2 * (i - 1))>>

\* the resolution diagonals of exposure row i: two diagonals in b, one in r
RdatOf(ch, i) ==
    IF ch = "b" THEN <<<<R(i), R(i)>>, <<R(i + 3), R(i + 3)>>>>
    ELSE <<<<R(2 * i)>>>>

\* the inverse variances of one exposure row, per band
IvarChoices ==
    { [ch \in {"b", "r"} |-> IF ch = "b" THEN <<R(1), R(1)>> ELSE <<R(1)>>],
      [ch \in {"b", "r"} |-> IF ch = "b" THEN <<R(0), R(2)>> ELSE <<R(0)>>],
      [ch \in {"b", "r"} |-> IF ch = "b" THEN <<R(2), R(0)>> ELSE <<R(1)>>] }

\* the mask of one exposure row, per band
MaskChoices ==
    { [ch \in {"b", "r"} |-> IF ch = "b" THEN <<1, 2>> ELSE <<0>>],
      [ch \in {"b", "r"} |-> IF ch = "b" THEN <<2, 0>> ELSE <<3>>] }

TargetIdVals == {11, 22}

\* the lists of distinct target identifiers
IdLists ==
    {t \in UNION {[1..n -> TargetIdVals] : n \in 1..Cardinality(TargetIdVals)} :
        \A a, b \in DOMAIN t : a # b => t[a] # t[b]}

\* the targetids arguments: None, or a list of distinct identifiers (which the
\* Spectra object may or may not hold)
TargetidsArgs == {NoTargetids} \cup {[isNone |-> FALSE, ids |-> t] : t \in IdLists}

\* the Spectra object with nrows exposure rows
MakeSpectra(nrows, tid, ivar, hasmask, mask) ==
    [bands    |-> Bands,
     wave     |-> Wave,
     flux     |-> [ch \in {"b", "r"} |-> [i \in 1..nrows |-> FluxOf(ch, i)]],
     ivar     |-> [ch \in {"b", "r"} |-> [i \in 1..nrows |-> ivar[i][ch]]],
     mask     |-> IF hasmask
                  THEN [isNone |-> FALSE,
                        arr |-> [ch \in {"b", "r"} |-> [i \in 1..nrows |-> mask[i][ch]]]]
                  ELSE NoMask,
     rdat     |-> [ch \in {"b", "r"} |-> [i \in 1..nrows |-> RdatOf(ch, i)]],
     fibermap |-> [i \in 1..nrows |-> [TARGETID |-> tid[i], EXPID |-> i]]]

Init ==
    /\ pc = "start"
    /\ \E nrows \in 1..MaxRows :
         \E tid \in [1..nrows -> TargetIdVals], ivar \in [1..nrows -> IvarChoices] :
            \/ \E mask \in [1..nrows -> MaskChoices] :
                 spectra = MakeSpectra(nrows, tid, ivar, TRUE, mask)
            \/ spectra = MakeSpectra(nrows, tid, ivar, FALSE, <<>>)
    /\ orig = spectra
    /\ targetids = NoTargetids
    /\ out = NoSpectra
    /\ out2 = NoSpectra
    /\ zbest = <<>>
    /\ model = NoModel
    /\ args = NoKeywords
    /\ ret = NoReturn
    /\ raised = ""
    /\ cin = NoArgs
    /\ cout = NoResult

\* out = coadd_targets(spectra, targetids=t)
CallCoaddTargets(t) ==
    /\ pc = "start"
    /\ \E r \in {coadd_targets(spectra, t)} :
           /\ spectra' = r.spectra
           /\ raised' = r.raised
           /\ out' = IF r.raised = "" THEN r.result ELSE out
           /\ pc' = IF r.raised = "" THEN "coadded" ELSE "failed"
    /\ targetids' = t
    /\ UNCHANGED <<cin, cout, orig, out2, zbest, model, args, ret>>

\* out2 = coadd_targets(out)
Recoadd ==
    /\ pc = "coadded"
    /\ \E r \in {coadd_targets(out, NoTargetids)} :
           /\ out' = r.spectra
           /\ raised' = r.raised
           /\ out2' = IF r.raised = "" THEN r.result ELSE out2
           /\ pc' = IF r.raised = "" THEN "recoadded" ELSE "failed"
    /\ UNCHANGED <<cin, cout, spectra, orig, targetids, zbest, model, args, ret>>

Next ==
    \/ \E t \in TargetidsArgs : CallCoaddTargets(t)
    \/ Recoadd

Spec == Init /\ [][Next]_vars

\* the calls out = coadd_targets(spectra, targetids=t) alone
NextTargets == \E t \in TargetidsArgs : CallCoaddTargets(t)

SpecTargets == Init /\ [][NextTargets]_vars

----------------------------------------------------------------------------
\* Vocabulary of the properties

\* the sum of the values f[j], j in S
RECURSIVE SumSet(_, _)
SumSet(f, S) ==
    IF S = {} THEN Zero
    ELSE LET j == CHOOSE x \in S : TRUE
         IN  RAdd(f[j], SumSet(f, S \ {j}))

\* the sum over all rows of the 2D array a at sample k
ColSum(a, k) == SumSet([i \in DOMAIN a |-> a[i][k]], DOMAIN a)

\* the sum over all rows of a[i][k] * b[i][k]
ColDot(a, b, k) == SumSet([i \in DOMAIN a |-> RMul(a[i][k], b[i][k])], DOMAIN a)

\* the target identifiers the call of coadd_targets works through
Requested == IF targetids.isNone THEN target_ids(orig) ELSE targetids.ids

\* the rows of the input Spectra that belong to target t
RowsOf(t) == {j \in DOMAIN orig.fibermap : orig.fibermap[j].TARGETID = t}

\* the one element of a singleton
TheRow(S) == CHOOSE j \in S : TRUE

\* bit b of the non-negative integer n
Bit(n, b) == (n \div (2 ^ b)) % 2

BitPositions == 0..3

----------------------------------------------------------------------------
\* C1: for every target with two or more exposures, every band and every sample
\* whose summed inverse variance is > 0, the flux stored by coadd_targets is
\* sum_i(flux[i]*ivar[i]) / sum_i(ivar[i]) over the target's exposures.
C1_WeightedMean ==
    pc = "coadded" =>
        \A i \in DOMAIN Requested :
            LET S == RowsOf(Requested[i])
            IN  Cardinality(S) >= 2 =>
                  \A ch \in DOMAIN orig.wave : \A k \in DOMAIN orig.wave[ch] :
                     LET w == SumSet([j \in S |-> orig.ivar[ch][j][k]], S)
                         f == SumSet([j \in S |-> RMul(orig.flux[ch][j][k],
                                                       orig.ivar[ch][j][k])], S)
                     IN  w[1] > 0 => out.flux[ch][i][k] = RDiv(f, w)

\* a target with two exposures of flux 10 and 12 and unequal positive weights in
\* band b: the coadded flux is not the plain mean 11
C1_Witness ==
    /\ pc = "coadded"
    /\ \E i \in DOMAIN Requested :
         /\ RowsOf(Requested[i]) = {1, 2}
         /\ orig.ivar["b"][1][1] # orig.ivar["b"][2][1]
         /\ orig.ivar["b"][1][1][1] > 0
         /\ orig.ivar["b"][2][1][1] > 0
         /\ out.flux["b"][i][1] # R(11)
         /\ out.flux["b"][i][1][2] = 3

\* C2: at every sample the inverse variance returned by _coadd is exactly the sum
\* of the inverse variances of all exposures at that sample.
C2_IvarIsSum ==
    pc = "coadd_done" =>
        \A k \in DOMAIN cin.wave : cout.ivar[k] = ColSum(cin.ivar, k)

\* two exposures with inverse variances 1 and 2 at a sample, and a sample where
\* all inverse variances are 0
C2_Witness ==
    /\ pc = "coadd_done"
    /\ Len(cin.ivar) >= 2
    /\ \E k \in DOMAIN cin.wave :
         cin.ivar[1][k] = R(1) /\ cin.ivar[2][k] = R(2) /\ cout.ivar[k] = R(3)
    /\ \E k \in DOMAIN cin.wave :
         (\A i \in DOMAIN cin.ivar : cin.ivar[i][k] = Zero) /\ cout.ivar[k] = Zero

\* C3: at every sample where all exposures have inverse variance 0, _coadd returns
\* the plain mean sum_i(flux[i])/nspec and inverse variance 0; no denominator is
\* zero and every returned value is finite.
C3_ZeroWeightFallback ==
    pc = "coadd_done" =>
        LET nspec == Len(cin.flux)
            acc   == CoaddLoop(cin.flux, cin.ivar, cin.rdat, nspec)
        IN  \A k \in DOMAIN cin.wave :
              /\ (\A i \in DOMAIN cin.ivar : cin.ivar[i][k] = Zero) =>
                    /\ cout.flux[k] = RDiv(ColSum(cin.flux, k), R(nspec))
                    /\ cout.ivar[k] = Zero
              /\ RAdd(acc.weights[k], IsBad(acc.weights)[k]) # Zero
              /\ IsFinite(cout.flux[k])
              /\ IsFinite(cout.ivar[k])
              /\ \A d \in DOMAIN cout.rdat : IsFinite(cout.rdat[d][k])

\* two exposures of flux 10 and 12, both of inverse variance 0 at a sample:
\* the coadded flux there is 11
C3_Witness ==
    /\ pc = "coadd_done"
    /\ Len(cin.flux) >= 2
    /\ \E k \in DOMAIN cin.wave :
         /\ \A i \in DOMAIN cin.ivar : cin.ivar[i][k] = Zero
         /\ cin.flux[1][k] = R(10)
         /\ cin.flux[2][k] = R(12)
         /\ ColSum(cin.flux, k) = RMul(R(11), R(Len(cin.flux)))
         /\ cout.flux[k] = R(11)
         /\ cout.ivar[k] = Zero

\* C4: at a sample where all exposures have the same inverse variance v >= 0, the
\* coadded flux is the unweighted arithmetic mean of the exposure fluxes.
C4_EqualWeightsMean ==
    pc = "coadd_done" =>
        \A k \in DOMAIN cin.wave :
            (\A i \in DOMAIN cin.ivar : cin.ivar[i][k] = cin.ivar[1][k] /\ cin.ivar[1][k][1] >= 0)
                => cout.flux[k] = RDiv(ColSum(cin.flux, k), R(Len(cin.flux)))

\* exposures of different flux with the same inverse variance 2 at one sample and
\* the same inverse variance 0 at another
C4_Witness ==
    /\ pc = "coadd_done"
    /\ Len(cin.flux) >= 2
    /\ \E k \in DOMAIN cin.wave :
         /\ \A i \in DOMAIN cin.ivar : cin.ivar[i][k] = R(2)
         /\ cin.flux[1][k] # cin.flux[2][k]
    /\ \E k \in DOMAIN cin.wave :
         /\ \A i \in DOMAIN cin.ivar : cin.ivar[i][k] = Zero
         /\ cin.flux[1][k] # cin.flux[2][k]

\* C5: for a target with exactly one exposure row, coadd_targets outputs in every
\* band the flux, inverse variance, resolution and mask of that row unchanged.
C5_SingleExposurePassThrough ==
    pc = "coadded" =>
        \A i \in DOMAIN Requested :
            LET S == RowsOf(Requested[i])
            IN  Cardinality(S) = 1 =>
                  \A ch \in DOMAIN orig.wave :
                     /\ out.flux[ch][i] = orig.flux[ch][TheRow(S)]
                     /\ out.ivar[ch][i] = orig.ivar[ch][TheRow(S)]
                     /\ out.rdat[ch][i] = orig.rdat[ch][TheRow(S)]
                     /\ ~orig.mask.isNone =>
                          out.mask.arr[ch][i] = orig.mask.arr[ch][TheRow(S)]

\* a single-exposure target whose row has a sample of inverse variance 0 and a
\* non-zero mask, stored next to a target that was coadded
C5_Witness ==
    /\ pc = "coadded"
    /\ ~orig.mask.isNone
    /\ \E i \in DOMAIN Requested :
         /\ Cardinality(RowsOf(Requested[i])) = 1
         /\ out.ivar["b"][i][1] = Zero
         /\ out.flux["b"][i][1] # Zero
         /\ out.mask.arr["b"][i][1] # 0
    /\ \E i \in DOMAIN Requested : Cardinality(RowsOf(Requested[i])) >= 2

\* C6 (as claimed): for every single-exposure target the pass-through output
\* (flux, ivar, resolution) equals what _coadd returns on that one-row input, at
\* every sample.
C6_PassThroughEqualsCoadd ==
    pc = "coadded" =>
        \A i \in DOMAIN Requested :
            LET S == RowsOf(Requested[i])
            IN  Cardinality(S) = 1 =>
                  \A ch \in DOMAIN orig.wave :
                     LET co == _coadd(orig.wave[ch],
                                      <<orig.flux[ch][TheRow(S)]>>,
                                      <<orig.ivar[ch][TheRow(S)]>>,
                                      <<orig.rdat[ch][TheRow(S)]>>)
                     IN  /\ out.flux[ch][i] = co.flux
                         /\ out.ivar[ch][i] = co.ivar
                         /\ out.rdat[ch][i] = co.rdat

\* C7: coadd_targets is idempotent: coadd_targets(coadd_targets(spectra)) has the
\* same bands, wavelengths, flux, ivar, resolution, mask and fibermap rows as
\* coadd_targets(spectra).
C7_Idempotent ==
    (pc = "recoadded" /\ targetids.isNone) => out2 = out

\* the first call coadded a target of several exposures next to another target
C7_Witness ==
    /\ pc = "recoadded"
    /\ targetids.isNone
    /\ Len(out2.fibermap) = 2
    /\ Len(orig.fibermap) > 2
    /\ out2.flux # orig.flux

\* C8 (as claimed): coadd_targets does not modify its input: after the call every
\* array of the input Spectra holds the values it held before the call.
C8_InputUnchanged ==
    pc \in {"coadded", "failed"} => spectra = orig

\* C9: when a mask is present, the coadded mask of a target at each band and
\* sample is the bitwise OR of the masks of the target's exposure rows: a bit is
\* set in the output iff it is set in some exposure.
C9_MaskIsOr ==
    (pc = "coadded" /\ ~orig.mask.isNone) =>
        \A i \in DOMAIN Requested :
            \A ch \in DOMAIN orig.wave : \A k \in DOMAIN orig.wave[ch] :
               \A b \in BitPositions :
                  Bit(out.mask.arr[ch][i][k], b) = 1
                    <=> \E j \in RowsOf(Requested[i]) : Bit(orig.mask.arr[ch][j][k], b) = 1

\* a target with exposures masked 1,2 and 2,0 at the two samples of band b and
\* 0 and 3 in band r: the coadded masks are 3,2 and 3
C9_Witness ==
    /\ pc = "coadded"
    /\ ~orig.mask.isNone
    /\ \E i \in DOMAIN Requested :
         /\ Cardinality(RowsOf(Requested[i])) >= 2
         /\ \E j1, j2 \in RowsOf(Requested[i]) :
              orig.mask.arr["b"][j1][1] = 1 /\ orig.mask.arr["b"][j2][1] = 2
         /\ out.mask.arr["b"][i] = <<3, 2>>
         /\ out.mask.arr["r"][i] = <<3>>

\* C10 (as claimed): coadd_targets returns exactly one row per requested target
\* identifier, in the order of targetids: in every band flux, ivar, mask and
\* resolution, and the fibermap, have len(targetids) rows and row i belongs to
\* targetids[i].
C10_OneRowPerRequestedTarget ==
    pc = "coadded" =>
        /\ Len(out.fibermap) = Len(Requested)
        /\ \A i \in DOMAIN Requested : out.fibermap[i].TARGETID = Requested[i]
        /\ \A ch \in DOMAIN orig.wave :
              /\ Len(out.flux[ch]) = Len(Requested)
              /\ Len(out.ivar[ch]) = Len(Requested)
              /\ Len(out.rdat[ch]) = Len(Requested)
              /\ ~orig.mask.isNone => Len(out.mask.arr[ch]) = Len(Requested)

----------------------------------------------------------------------------
\* C11: the resolution returned by _coadd is, for every diagonal and sample,
\* sum_i(rdat[i]*ivar[i]) divided by the summed inverse variance when that sum
\* is > 0 and divided by 1 when the sum is 0.
C11_RdatWeightedMean ==
    pc = "coadd_done" =>
        \A d \in DOMAIN cin.rdat[1] : \A k \in DOMAIN cin.wave :
            LET w == ColSum(cin.ivar, k)
                r == SumSet([i \in DOMAIN cin.rdat |->
                                RMul(cin.rdat[i][d][k], cin.ivar[i][k])], DOMAIN cin.rdat)
            IN  /\ w[1] > 0 => cout.rdat[d][k] = RDiv(r, w)
                /\ w = Zero => cout.rdat[d][k] = r

\* exposures of resolution 1 and 2 with inverse variances 1 and 2 at one sample
\* (combined resolution 5/3) and all of inverse variance 0 at another (0)
C11_Witness ==
    /\ pc = "coadd_done"
    /\ Len(cin.rdat) >= 2
    /\ \E k \in DOMAIN cin.wave :
         /\ cin.rdat[1][1][k] = R(1) /\ cin.ivar[1][k] = R(1)
         /\ cin.rdat[2][1][k] = R(2) /\ cin.ivar[2][k] = R(2)
         /\ cout.rdat[1][k] = <<5, 3>>
    /\ \E k \in DOMAIN cin.wave :
         /\ \A i \in DOMAIN cin.ivar : cin.ivar[i][k] = Zero
         /\ cout.rdat[1][k] = Zero

\* C12: for every band the wavelength array of the Spectra returned by
\* coadd_targets equals the input wavelength array of that band.
C12_WaveUnchanged ==
    pc \in {"coadded", "recoadded"} =>
        /\ out.bands = orig.bands
        /\ \A ch \in DOMAIN orig.wave : out.wave[ch] = orig.wave[ch]
        /\ DOMAIN out.wave = DOMAIN orig.wave

\* a call that coadded a target of several exposures, on bands of different grids
C12_Witness ==
    /\ pc = "coadded"
    /\ \E i \in DOMAIN Requested : Cardinality(RowsOf(Requested[i])) >= 2
    /\ orig.wave["b"] # orig.wave["r"]
    /\ out.wave["r"] = <<R(3)>>

\* the input Spectra reduced to the rows of target t
SelectTarget(sp, t) ==
    LET S  == {j \in DOMAIN sp.fibermap : sp.fibermap[j].TARGETID = t}
        ii == [n \in 1..Cardinality(S) |->
                 CHOOSE j \in S : Cardinality({x \in S : x < j}) = n - 1]
    IN  [sp EXCEPT !.flux = [ch \in DOMAIN sp.flux |-> TakeRows(sp.flux[ch], ii)],
                   !.ivar = [ch \in DOMAIN sp.ivar |-> TakeRows(sp.ivar[ch], ii)],
                   !.rdat = [ch \in DOMAIN sp.rdat |-> TakeRows(sp.rdat[ch], ii)],
                   !.mask = IF sp.mask.isNone THEN sp.mask
                            ELSE [isNone |-> FALSE,
                                  arr |-> [ch \in DOMAIN sp.mask.arr |->
                                             TakeRows(sp.mask.arr[ch], ii)]],
                   !.fibermap = TakeRows(sp.fibermap, ii)]

\* row i of every array of the Spectra sp, band by band
RowOf(sp, i) ==
    [ch \in DOMAIN sp.wave |->
        [flux |-> sp.flux[ch][i], ivar |-> sp.ivar[ch][i], rdat |-> sp.rdat[ch][i],
         mask |-> IF sp.mask.isNone THEN <<>> ELSE sp.mask.arr[ch][i]]]

\* C19: the output row of a target depends only on the input rows of that target:
\* whatever the other rows and whatever the order of the requested targets (the
\* calls take them in either order), the row is the one obtained by coadding the
\* target alone, from its rows only (flux, ivar, resolution, mask in every band).
C19_TargetsIndependent ==
    pc = "coadded" =>
        \A req \in {Requested} :
            \A i \in DOMAIN req :
                \A sub \in {SelectTarget(orig, req[i])} :
                    \A alone \in {coadd_targets(sub, [isNone |-> FALSE, ids |-> <<req[i]>>])} :
                        /\ alone.raised = ""
                        /\ RowOf(out, i) = RowOf(alone.result, 1)

\* two targets coadded in one call, in the order opposite to that of their rows,
\* the second one from two exposures that carry a mask, after a first target
\* whose rows differ from them
C19_Witness ==
    /\ pc = "coadded"
    /\ Len(Requested) = 2
    /\ Requested # target_ids(orig)
    /\ ~orig.mask.isNone
    /\ Cardinality(RowsOf(Requested[2])) = 2
    /\ RowOf(out, 1) # RowOf(out, 2)
    /\ out.ivar["b"][2] # orig.ivar["b"][TheRow(RowsOf(Requested[1]))]

----------------------------------------------------------------------------
\* plotframes.py: create_model(spectra, zbest)

\* the largest number of samples of a band whose grid is drawn from BandRange
MaxWave == 2

\* x < y and x <= y for finite rationals
RLess(x, y) == x[1] * y[2] < y[1] * x[2]

RLeq(x, y) == x[1] * y[2] <= y[1] * x[2]

Last(s) == s[Len(s)]

\* the array value np.zeros puts in a model row
ZeroFlux == [band |-> "", k |-> 0, rrow |-> 0, zb |-> [TARGETID |-> 0, Z |-> 0]]

\* element k of spectra.R[band][j].dot(mx), mx the template of zb resampled
\* to spectra.wave[band]: it is kept as the record of what it was made from
Convolved(band, j, zb, k) == [band |-> band, k |-> k, rrow |-> j, zb |-> zb]

\* np.where(targetids == targetid)[0]: the positions of targetid in targetids
RECURSIVE WhereInUpTo(_, _, _)
WhereInUpTo(ids, targetid, n) ==
    IF n = 0 THEN <<>>
    ELSE LET Body(prev) == IF ids[n] = targetid THEN Append(prev, n) ELSE prev
         IN  Body(WhereInUpTo(ids, targetid, n - 1))

WhereIn(ids, targetid) == WhereInUpTo(ids, targetid, Len(ids))

\* model_flux[band] = np.zeros(spectra.flux[band].shape), for every band
ModelZeros(sp) ==
    [band \in DOMAIN sp.flux |->
        [i \in DOMAIN sp.flux[band] |-> [k \in DOMAIN sp.flux[band][i] |-> ZeroFlux]]]

\* one turn of the loop over the rows of zbest
ModelStep(sp, zb, i, st) ==
    IF st.raised # "" THEN st
    ELSE LET jj == WhereIn(target_ids(sp), zb.TARGETID)
         IN  IF jj = <<>> THEN [st EXCEPT !.raised = "IndexError"]
             ELSE IF \E n \in 1..Len(sp.bands) : i > Len(st.model_flux[sp.bands[n]])
                  THEN [st EXCEPT !.raised = "IndexError"]
                  ELSE [raised     |-> "",
                        computed   |-> st.computed + 1,
                        model_flux |->
                            [band \in DOMAIN st.model_flux |->
                                IF \E n \in 1..Len(sp.bands) : sp.bands[n] = band
                                THEN [st.model_flux[band] EXCEPT ![i] =
                                         [k \in DOMAIN sp.wave[band] |->
                                             Convolved(band, jj[1], zb, k)]]
                                ELSE st.model_flux[band]]]

RECURSIVE ModelLoop(_, _, _)
ModelLoop(sp, zb, n) ==
    IF n = 0 THEN [raised |-> "", computed |-> 0, model_flux |-> ModelZeros(sp)]
    ELSE LET Body(prev) == ModelStep(sp, zb[n], n, prev)
         IN  Body(ModelLoop(sp, zb, n - 1))

\* br_split taken at the last b sample instead of the midpoint
BrSplitAtLastB(wave) == Last(wave["b"])

\* br_split = 0.5*(spectra.wave['b'][-1] + spectra.wave['r'][0])
BrSplit(wave) == RMul(<<1, 2>>, RAdd(Last(wave["b"]), wave["r"][1]))

\* rz_split = 0.5*(spectra.wave['r'][-1] + spectra.wave['z'][0])
RzSplit(wave) == RMul(<<1, 2>>, RAdd(Last(wave["r"]), wave["z"][1]))

\* keep['b'] with the sample on the split included
KeepBInclusive(wave) == [k \in DOMAIN wave["b"] |-> RLeq(wave["b"][k], BrSplit(wave))]

\* keep['b'] = (spectra.wave['b'] < br_split)
KeepB(wave) == [k \in DOMAIN wave["b"] |-> RLess(wave["b"][k], BrSplit(wave))]

\* keep['r'] with the sample on the upper split included
KeepRInclusive(wave) ==
    [k \in DOMAIN wave["r"] |->
        RLeq(BrSplit(wave), wave["r"][k]) /\ RLeq(wave["r"][k], RzSplit(wave))]

\* keep['r'] = (br_split <= spectra.wave['r']) & (spectra.wave['r'] < rz_split)
KeepR(wave) ==
    [k \in DOMAIN wave["r"] |->
        RLeq(BrSplit(wave), wave["r"][k]) /\ RLess(wave["r"][k], RzSplit(wave))]

\* keep['z'] = (rz_split <= spectra.wave['z'])
KeepZ(wave) == [k \in DOMAIN wave["z"] |-> RLeq(RzSplit(wave), wave["z"][k])]

Keep(wave) == [b |-> KeepB(wave), r |-> KeepR(wave), z |-> KeepZ(wave)]

\* a[keep] for a boolean array keep
RECURSIVE MaskedUpTo(_, _, _)
MaskedUpTo(a, keep, n) ==
    IF n = 0 THEN <<>>
    ELSE LET Body(prev) == IF keep[n] THEN Append(prev, a[n]) ELSE prev
         IN  Body(MaskedUpTo(a, keep, n - 1))

Masked(a, keep) == MaskedUpTo(a, keep, Len(a))

\* the flux columns taken whole, without the mask
ColumnsAll(a, keep) == a

\* model_flux[band][:, keep[band]], for one row
Columns(a, keep) == Masked(a, keep)

\* every output row stitched from the first row of the per-band arrays
StitchRowsFirstOnly(model_flux, keep) ==
    [i \in DOMAIN model_flux["b"] |->
        Columns(model_flux["b"][1], keep["b"])
            \o Columns(model_flux["r"][1], keep["r"])
            \o Columns(model_flux["z"][1], keep["z"])]

\* mflux = np.concatenate([model_flux['b'][:, keep['b']], ...], axis=1)
StitchRows(model_flux, keep) ==
    [i \in DOMAIN model_flux["b"] |->
        Columns(model_flux["b"][i], keep["b"])
            \o Columns(model_flux["r"][i], keep["r"])
            \o Columns(model_flux["z"][i], keep["z"])]

\* model_wave = np.concatenate([spectra.wave['b'][keep['b']], ...])
StitchWave(wave, keep) ==
    Masked(wave["b"], keep["b"]) \o Masked(wave["r"], keep["r"])
        \o Masked(wave["z"], keep["z"])

\* the combination without the assertion: the bands that exist, end to end
StitchPresentBands(wave, model_flux) ==
    IF ~ ({"b", "r", "z"} \subseteq DOMAIN wave)
    THEN [raised     |-> "",
          model_wave |-> (IF "b" \in DOMAIN wave THEN wave["b"] ELSE <<>>)
                            \o (IF "r" \in DOMAIN wave THEN wave["r"] ELSE <<>>)
                            \o (IF "z" \in DOMAIN wave THEN wave["z"] ELSE <<>>),
          mflux      |-> <<>>]
    ELSE [raised     |-> "",
          model_wave |-> StitchWave(wave, Keep(wave)),
          mflux      |-> StitchRows(model_flux, Keep(wave))]

\* the combination to a single wavelength grid across all cameras
Stitch(wave, model_flux) ==
    IF ~ ({"b", "r", "z"} \subseteq DOMAIN wave)
    THEN [raised |-> "AssertionError", model_wave |-> <<>>, mflux |-> <<>>]
    ELSE [raised     |-> "",
          model_wave |-> StitchWave(wave, Keep(wave)),
          mflux      |-> StitchRows(model_flux, Keep(wave))]

\* create_model without the assertion on len(zbest)
CreateModelNoAssert(sp, zb) ==
    LET loop == ModelLoop(sp, zb, Len(zb))
        st   == Stitch(sp.wave, loop.model_flux)
    IN  IF loop.raised # ""
        THEN [raised |-> loop.raised, computed |-> loop.computed,
              model_wave |-> <<>>, mflux |-> <<>>]
        ELSE [raised |-> st.raised, computed |-> loop.computed,
              model_wave |-> st.model_wave, mflux |-> st.mflux]

create_model(sp, zb) ==
    IF Len(zb) # Len(sp.fibermap)
    THEN [raised |-> "AssertionError", computed |-> 0,
          model_wave |-> <<>>, mflux |-> <<>>]
    ELSE LET loop == ModelLoop(sp, zb, Len(zb))
             st   == Stitch(sp.wave, loop.model_flux)
         IN  IF loop.raised # ""
             THEN [raised |-> loop.raised, computed |-> loop.computed,
                   model_wave |-> <<>>, mflux |-> <<>>]
             ELSE [raised |-> st.raised, computed |-> loop.computed,
                   model_wave |-> st.model_wave, mflux |-> st.mflux]

----------------------------------------------------------------------------
\* The calls of create_model

ModelBands == <<"b", "r", "z">>

\* the wavelengths the samples of each band are drawn from: adjacent bands overlap
BandRange == [b |-> 1..4, r |-> 3..7, z |-> 6..9]

\* the members of the set S of integers, in increasing order
Ascending(S) ==
    [n \in 1..Cardinality(S) |-> R(CHOOSE x \in S : Cardinality({y \in S : y < x}) = n - 1)]

\* the strictly increasing grids of 1..MaxWave samples drawn from S
Grids(S) == {Ascending(T) : T \in {U \in SUBSET S : Cardinality(U) \in 1..MaxWave}}

\* grids without overlap
DisjointWave ==
    [b |-> <<R(0), R(1), R(2), R(3)>>, r |-> <<R(5), R(6), R(7), R(8)>>,
     z |-> <<R(10), R(11), R(12), R(13)>>]

\* grids that overlap; the last r sample lies on the r-z split
OverlapWave ==
    [b |-> <<R(1), R(2), R(4)>>, r |-> <<R(3), R(5), R(7)>>, z |-> <<R(7), R(8)>>]

\* the TARGETIDs a zbest row may hold: 33 is the one no spectrum has
ZbestIdVals == TargetIdVals \cup {33}

\* the grids w without the bands outside S
Restrict(w, S) == [band \in S |-> w[band]]

\* OverlapWave with one or two of its bands missing
MissingBandWaves ==
    {Restrict(OverlapWave, S) : S \in (SUBSET {"b", "r", "z"}) \ {{}, {"b", "r", "z"}}}

\* the arrays of 1..MaxWave samples drawn from S in any order, repeats included
AnyOrder(S) == {[k \in DOMAIN g |-> R(g[k])] : g \in UNION {[1..n -> S] : n \in 1..MaxWave}}

\* OverlapWave with the array of one band replaced by samples in any order
AnyOrderWaves ==
    UNION {{[OverlapWave EXCEPT ![band] = g] : g \in AnyOrder(BandRange[band])} :
              band \in {"b", "r", "z"}}

\* the Spectra object with the given grids and one row per entry of tid
MakeModelSpectra(wave, tid) ==
    [bands    |-> SelectSeq(ModelBands, LAMBDA band : band \in DOMAIN wave),
     wave     |-> wave,
     flux     |-> [ch \in DOMAIN wave |->
                      [i \in DOMAIN tid |-> [k \in DOMAIN wave[ch] |-> Zero]]],
     fibermap |-> [i \in DOMAIN tid |-> [TARGETID |-> tid[i], EXPID |-> i]]]

\* the zbest table with the given TARGETIDs: row i has redshift i
MakeZbest(tid) == [i \in DOMAIN tid |-> [TARGETID |-> tid[i], Z |-> i]]

InitModel ==
    /\ pc = "model_start"
    /\ \/ /\ \E wb \in Grids(BandRange["b"]), wr \in Grids(BandRange["r"]),
                wz \in Grids(BandRange["z"]) :
                 spectra = MakeModelSpectra([b |-> wb, r |-> wr, z |-> wz], <<11, 22>>)
          /\ zbest = MakeZbest(<<22, 11>>)
       \/ /\ \E w \in AnyOrderWaves : spectra = MakeModelSpectra(w, <<11, 22>>)
          /\ zbest = MakeZbest(<<22, 11>>)
       \/ /\ \E w \in {DisjointWave, OverlapWave} \cup MissingBandWaves :
               \E nrows \in 1..MaxRows : \E tid \in [1..nrows -> TargetIdVals] :
                 spectra = MakeModelSpectra(w, tid)
          /\ \E n \in 1..MaxRows : \E tid \in [1..n -> ZbestIdVals] :
                 zbest = MakeZbest(tid)
    /\ orig = NoSpectra
    /\ targetids = NoTargetids
    /\ out = NoSpectra
    /\ out2 = NoSpectra
    /\ model = NoModel
    /\ args = NoKeywords
    /\ ret = NoReturn
    /\ raised = ""
    /\ cin = NoArgs
    /\ cout = NoResult

\* model = create_model(spectra, zbest)
CallCreateModel ==
    /\ pc = "model_start"
    /\ \E r \in {create_model(spectra, zbest)} :
           /\ raised' = r.raised
           /\ model' = [model_wave |-> r.model_wave, mflux |-> r.mflux,
                        computed |-> r.computed]
           /\ pc' = IF r.raised = "" THEN "model_done" ELSE "model_failed"
    /\ UNCHANGED <<cin, cout, spectra, orig, targetids, out, out2, zbest, args, ret>>

NextModel == CallCreateModel

SpecModel == InitModel /\ [][NextModel]_vars

----------------------------------------------------------------------------
\* Vocabulary of the properties of create_model

ModelDone == pc = "model_done"

StrictlyIncreasing(w) == \A k \in 1..(Len(w) - 1) : RLess(w[k], w[k + 1])

\* every band strictly increasing, the bands in spectral order, and b and z apart
SpectrallyOrdered(wave) ==
    /\ \A band \in {"b", "r", "z"} : StrictlyIncreasing(wave[band])
    /\ RLeq(wave["b"][1], wave["r"][1]) /\ RLeq(wave["r"][1], wave["z"][1])
    /\ RLeq(Last(wave["b"]), Last(wave["r"])) /\ RLeq(Last(wave["r"]), Last(wave["z"]))
    /\ RLess(Last(wave["b"]), wave["z"][1])

\* every band strictly increasing and adjacent bands apart
NonOverlapping(wave) ==
    /\ \A band \in {"b", "r", "z"} : StrictlyIncreasing(wave[band])
    /\ RLess(Last(wave["b"]), wave["r"][1])
    /\ RLess(Last(wave["r"]), wave["z"][1])

Mid(x, y) == RDiv(RAdd(x, y), R(2))

\* the two midpoints of the grids of the Spectra object
MBr == Mid(Last(spectra.wave["b"]), spectra.wave["r"][1])

MRz == Mid(Last(spectra.wave["r"]), spectra.wave["z"][1])

\* the samples of a band on its side of the midpoints
Retained(band) ==
    {k \in DOMAIN spectra.wave[band] :
        LET w == spectra.wave[band][k]
        IN  IF band = "b" THEN RLess(w, MBr)
            ELSE IF band = "r" THEN ~ RLess(w, MBr) /\ RLess(w, MRz)
            ELSE ~ RLess(w, MRz)}

\* the members of a set of integers in increasing order
SortedInts(S) ==
    [n \in 1..Cardinality(S) |-> CHOOSE x \in S : Cardinality({y \in S : y < x}) = n - 1]

\* the <<band, sample>> pairs of the retained samples, b then r then z
RetainedOf(band) == [n \in 1..Cardinality(Retained(band)) |-> <<band, SortedInts(Retained(band))[n]>>]

ExpectedCols == RetainedOf("b") \o RetainedOf("r") \o RetainedOf("z")

\* the per-band model arrays the loop over zbest fills
PerBand == ModelLoop(spectra, zbest, Len(zbest)).model_flux

\* the sequences of distinct rows out of n rows
Selections(n) ==
    {sel \in UNION {[1..m -> 1..n] : m \in 1..n} :
        \A a, b \in DOMAIN sel : a # b => sel[a] # sel[b]}

\* C13: when the b, r and z grids are each strictly increasing and spectrally
\* ordered with overlap only between adjacent bands, the unified grid is
\* strictly increasing and has as many samples as were retained from b, r and z
C13_StitchStrictlyIncreasing ==
    (ModelDone /\ SpectrallyOrdered(spectra.wave)) =>
        /\ StrictlyIncreasing(model.model_wave)
        /\ Len(model.model_wave) =
              Cardinality(Retained("b")) + Cardinality(Retained("r"))
                  + Cardinality(Retained("z"))

C13_Witness ==
    /\ ModelDone
    /\ SpectrallyOrdered(spectra.wave)
    /\ spectra.wave = [b |-> <<R(2), R(4)>>, r |-> <<R(4), R(6)>>, z |-> <<R(6), R(8)>>]
    /\ model.model_wave = <<R(2), R(4), R(6), R(8)>>

\* C14: a b sample is in the unified grid iff it is below the b-r midpoint, an
\* r sample iff it is at or above the b-r midpoint and below the r-z midpoint,
\* a z sample iff it is at or above the r-z midpoint; nothing else decides
C14_RetentionByMidpoints ==
    ModelDone =>
        model.model_wave =
            [p \in DOMAIN ExpectedCols |->
                spectra.wave[ExpectedCols[p][1]][ExpectedCols[p][2]]]

C14_Witness ==
    /\ ModelDone
    /\ spectra.wave = OverlapWave
    /\ spectra.wave["r"][3] = MRz
    /\ Retained("r") = {2}
    /\ model.model_wave = <<R(1), R(2), R(5), R(7), R(8)>>

\* C15: the unified flux has one column per unified wavelength sample, and the
\* value at a column is the per-band model value of the band that contributed
\* the sample, at that band's own sample: no interpolation, no averaging
C15_HardCut ==
    ModelDone =>
        \A i \in DOMAIN model.mflux :
            /\ Len(model.mflux[i]) = Len(model.model_wave)
            /\ DOMAIN model.mflux[i] = DOMAIN ExpectedCols
            /\ \A p \in DOMAIN model.mflux[i] :
                  LET c == ExpectedCols[p]
                  IN  /\ model.mflux[i][p] = PerBand[c[1]][i][c[2]]
                      /\ model.model_wave[p] = spectra.wave[c[1]][c[2]]

C15_Witness ==
    /\ ModelDone
    /\ spectra.wave = OverlapWave
    /\ Len(model.mflux) = 2
    /\ Len(model.mflux[2]) = 5
    /\ model.mflux[2][3].band = "r"
    /\ model.mflux[2][3].k = 2
    /\ model.mflux[2][4].band = "z"
    /\ model.mflux[2][4].k = 1

\* C16: when the last sample of each band is below the first sample of the
\* next, no sample is dropped: the unified grid and every flux row are the
\* plain concatenation of the b, r and z arrays
C16_NoOverlapConcatenates ==
    (ModelDone /\ NonOverlapping(spectra.wave)) =>
        /\ model.model_wave =
              spectra.wave["b"] \o spectra.wave["r"] \o spectra.wave["z"]
        /\ \A i \in DOMAIN model.mflux :
              model.mflux[i] = PerBand["b"][i] \o PerBand["r"][i] \o PerBand["z"][i]

C16_Witness ==
    /\ ModelDone
    /\ NonOverlapping(spectra.wave)
    /\ spectra.wave["b"] = <<R(0), R(1), R(2), R(3)>>
    /\ spectra.wave["r"] = <<R(5), R(6), R(7), R(8)>>
    /\ SubSeq(model.model_wave, 1, 8) =
          <<R(0), R(1), R(2), R(3), R(5), R(6), R(7), R(8)>>

\* C17: stitching any selection of the rows gives the same unified grid and
\* the corresponding rows of the stitch of all rows
C17_StitchCommutesWithRows ==
    ModelDone =>
        \A sel \in Selections(Len(model.mflux)) :
            LET sub == Stitch(spectra.wave,
                              [band \in {"b", "r", "z"} |-> TakeRows(PerBand[band], sel)])
            IN  /\ sub.model_wave = model.model_wave
                /\ sub.mflux = TakeRows(model.mflux, sel)

C17_Witness ==
    /\ ModelDone
    /\ Len(model.mflux) = 3
    /\ model.mflux[1] # model.mflux[3]
    /\ model.mflux[2] # model.mflux[3]
    /\ Len(model.model_wave) < Len(spectra.wave["b"]) + Len(spectra.wave["r"])
                                  + Len(spectra.wave["z"])

\* C18: output row i holds the model of zbest row i, convolved with the
\* resolution matrix of a spectra row whose TARGETID is that of zbest row i
C18_RowMatchedToZbest ==
    ModelDone =>
        \A i \in DOMAIN zbest :
            \A p \in DOMAIN model.mflux[i] :
                /\ model.mflux[i][p].zb = zbest[i]
                /\ spectra.fibermap[model.mflux[i][p].rrow].TARGETID = zbest[i].TARGETID

\* C20: with len(zbest) different from the number of spectra rows the call
\* fails before any model row is computed; a returned model has one row per
\* spectra row
C20_SizeMismatchFails ==
    /\ (pc \in {"model_done", "model_failed"} /\ Len(zbest) # Len(spectra.fibermap)) =>
           /\ raised = "AssertionError"
           /\ model.computed = 0
           /\ model.mflux = <<>>
    /\ ModelDone => Len(model.mflux) = Len(spectra.fibermap)

C20_Witness ==
    /\ pc = "model_failed"
    /\ Len(zbest) = 1
    /\ Len(spectra.fibermap) = 2
    /\ spectra.fibermap[1].TARGETID = zbest[1].TARGETID
    /\ raised = "AssertionError"
    /\ model.computed = 0

\* C21: whenever one of the bands b, r, z is absent from the wavelength grids
\* the call fails and returns no unified grid; the failure is the assertion on
\* the three bands when the rows of zbest could all be modelled
C21_MissingBandFails ==
    (pc # "model_start" /\ ~ ({"b", "r", "z"} \subseteq DOMAIN spectra.wave)) =>
        /\ pc = "model_failed"
        /\ raised # ""
        /\ model.model_wave = <<>>
        /\ model.mflux = <<>>
        /\ model.computed = Len(zbest) => raised = "AssertionError"

C21_Witness ==
    /\ pc = "model_failed"
    /\ DOMAIN spectra.wave = {"b", "r"}
    /\ Len(zbest) = 2
    /\ model.computed = 2
    /\ raised = "AssertionError"
    /\ model.model_wave = <<>>

\* C22: whenever the wavelength array of a band is not strictly increasing the
\* call fails instead of returning a unified grid
C22_NonMonotonicFails ==
    (pc # "model_start" /\ {"b", "r", "z"} \subseteq DOMAIN spectra.wave
        /\ \E band \in {"b", "r", "z"} : ~ StrictlyIncreasing(spectra.wave[band])) =>
        /\ pc = "model_failed"
        /\ model.model_wave = <<>>

----------------------------------------------------------------------------
\* _coadd on arrays whose shapes may disagree

\* the exception numpy raises in _coadd for flux[nspec, nwave], ivar rows of
\* nwi samples and rdat diagonals of nwr samples, "" if none: ivar[i] and
\* rdat[i] need a row i, an operand of an in-place operation has the length of
\* its target or length 1 (which is broadcast)
CoaddShapeError(flux, ivar, rdat) ==
    LET nspec == Len(flux)
        nwave == Len(flux[1])
    IN  IF Len(rdat) = 0 \/ Len(ivar) = 0 THEN "IndexError"
        ELSE IF Len(ivar[1]) \notin {nwave, 1} THEN "ValueError"
        ELSE IF Len(ivar[1]) \notin {Len(rdat[1][1]), 1} THEN "ValueError"
        ELSE IF nspec > Len(ivar) \/ nspec > Len(rdat) THEN "IndexError"
        ELSE IF nwave \notin {Len(rdat[1][1]), 1} THEN "ValueError"
        ELSE ""

\* the rows of a broadcast to n samples
BroadcastRows(a, n) ==
    [i \in DOMAIN a |-> IF Len(a[i]) = 1 /\ n # 1 THEN [k \in 1..n |-> a[i][1]] ELSE a[i]]

\* the call _coadd(wave, flux, ivar, rdat) with numpy's indexing and broadcasting:
\* rows of ivar and rdat beyond nspec are never read
CoaddCall(wave, flux, ivar, rdat) ==
    IF CoaddShapeError(flux, ivar, rdat) # ""
    THEN [raised |-> CoaddShapeError(flux, ivar, rdat), result |-> NoResult]
    ELSE [raised |-> "",
          result |-> _coadd(wave, flux, BroadcastRows(ivar, Len(flux[1])), rdat)]

\* flux, ivar and rdat arrays of the given shapes
ShapedFlux(nspec, nwave) == [i \in 1..nspec |-> [k \in 1..nwave |-> R(10 * i + k)]]

ShapedIvar(nspec, nwave) == [i \in 1..nspec |-> [k \in 1..nwave |-> R(i + k - 1)]]

ShapedRdat(nspec, nwave) == [i \in 1..nspec |-> <<[k \in 1..nwave |-> R(i)]>>]

\* the numbers of samples an ivar or rdat array may have: nwave is 2
ShapeWidths == 1..3

InitShapes ==
    /\ pc = "shape_start"
    /\ \E nspec \in 1..MaxSpec :
         \E ni, nr \in 1..(MaxSpec + 1), wi, wr \in ShapeWidths :
           cin = [wave |-> CoaddWave,
                  flux |-> ShapedFlux(nspec, Len(CoaddWave)),
                  ivar |-> ShapedIvar(ni, wi),
                  rdat |-> ShapedRdat(nr, wr)]
    /\ cout = NoResult
    /\ spectra = NoSpectra
    /\ orig = NoSpectra
    /\ targetids = NoTargetids
    /\ out = NoSpectra
    /\ out2 = NoSpectra
    /\ zbest = <<>>
    /\ model = NoModel
    /\ args = NoKeywords
    /\ ret = NoReturn
    /\ raised = ""

CallCoaddShapes ==
    /\ pc = "shape_start"
    /\ \E r \in {CoaddCall(cin.wave, cin.flux, cin.ivar, cin.rdat)} :
           /\ cout' = r.result
           /\ raised' = r.raised
           /\ pc' = IF r.raised = "" THEN "shape_done" ELSE "shape_failed"
    /\ UNCHANGED <<cin, spectra, orig, targetids, out, out2, zbest, model, args, ret>>

NextShapes == CallCoaddShapes

SpecShapes == InitShapes /\ [][NextShapes]_vars

\* the flux, ivar and rdat arguments disagree in nspec or in nwave
ShapesDisagree ==
    \/ Len(cin.ivar) # Len(cin.flux)
    \/ Len(cin.rdat) # Len(cin.flux)
    \/ Len(cin.ivar[1]) # Len(cin.flux[1])
    \/ Len(cin.rdat[1][1]) # Len(cin.flux[1])

\* C23: whenever flux, ivar and rdat disagree in their number of exposures or
\* of samples the call fails and returns no coadded arrays
C23_ShapeMismatchFails ==
    (pc \in {"shape_done", "shape_failed"} /\ ShapesDisagree) =>
        /\ pc = "shape_failed"
        /\ raised # ""
        /\ cout = NoResult

----------------------------------------------------------------------------
\* C24: when a requested target identifier matches no row of the fibermap,
\* coadd_targets ends in the EmptySelection outcome, reported to the caller,
\* and returns no output
C24_EmptySelectionReported ==
    (pc \in {"coadded", "failed"} /\ \E i \in DOMAIN Requested : RowsOf(Requested[i]) = {}) =>
        /\ raised = "EmptySelection"
        /\ out = NoSpectra

----------------------------------------------------------------------------
\* plotframes.py: make_cds_spectra and make_cds_coaddcam_spec

\* np.sqrt of a rational whose numerator and denominator are squares; NaN below 0
ISqrt(n) == CHOOSE m \in 0..n : m * m = n

RSqrt(x) == IF x[1] < 0 THEN <<0, 0>> ELSE <<ISqrt(x[1]), ISqrt(x[2])>>

\* np.where(ivar > 0) turned into np.where(ivar >= 0)
WherePositiveOrZero(ivar) == {k \in DOMAIN ivar : RLeq(Zero, ivar[k])}

\* w, = np.where(ivar > 0)
WherePositive(ivar) == {k \in DOMAIN ivar : RLess(Zero, ivar[k])}

\* noise = start; noise[w] = 1/np.sqrt(ivar[w])
NoiseFrom(start, ivar) ==
    [k \in DOMAIN ivar |->
        IF k \in WherePositive(ivar) THEN RDiv(R(1), RSqrt(ivar[k])) ELSE start]

\* the values 1/np.sqrt was evaluated on
SqrtArgs(ivar) == {ivar[k] : k \in WherePositive(ivar)}

\* the data source of one band
CdsOfBand(sp, band, with_noise) ==
    LET nspec     == Len(sp.fibermap)
        orignoise == IF with_noise
                     THEN [i \in 1..nspec |-> NoiseFrom(Zero, sp.ivar[band][i])]
                     ELSE <<>>
    IN  [name      |-> band,
         origwave  |-> sp.wave[band],
         plotwave  |-> sp.wave[band],
         origflux  |-> [i \in 1..nspec |-> sp.flux[band][i]],
         orignoise |-> orignoise,
         plotflux  |-> sp.flux[band][1],
         has_noise |-> with_noise,
         plotnoise |-> IF with_noise THEN orignoise[1] ELSE <<>>]

\* cds: the list of data sources; sqrtargs: the values 1/np.sqrt was evaluated on
make_cds_spectra(sp, with_noise) ==
    [cds      |-> [n \in DOMAIN sp.bands |-> CdsOfBand(sp, sp.bands[n], with_noise)],
     sqrtargs |-> IF with_noise
                  THEN UNION {SqrtArgs(sp.ivar[sp.bands[n]][i]) :
                                 n \in DOMAIN sp.bands, i \in DOMAIN sp.fibermap}
                  ELSE {}]

\* mycoaddcam.mycoaddcam(spectra): the bands merged at the midpoints
mycoaddcam(sp) ==
    [wave |-> StitchWave(sp.wave, Keep(sp.wave)),
     flux |-> StitchRows(sp.flux, Keep(sp.wave)),
     ivar |-> StitchRows(sp.ivar, Keep(sp.wave))]

make_cds_coaddcam_spec(sp, with_noise) ==
    LET coadd == mycoaddcam(sp)
    IN  [cds      |-> [origwave  |-> coadd.wave,
                       plotwave  |-> coadd.wave,
                       plotflux  |-> coadd.flux[1],
                       plotnoise |-> IF with_noise THEN NoiseFrom(R(1), coadd.ivar[1])
                                     ELSE [k \in DOMAIN coadd.wave |-> R(1)]],
         sqrtargs |-> IF with_noise THEN SqrtArgs(coadd.ivar[1]) ELSE {}]

\* the inverse variances of one exposure row over the grids OverlapWave
NoiseIvarRows ==
    { [b |-> <<R(1), R(4), R(1)>>, r |-> <<R(4), <<1, 4>>, R(1)>>, z |-> <<R(1), R(4)>>],
      [b |-> <<R(0), R(0), R(0)>>, r |-> <<R(0), R(0), R(0)>>, z |-> <<R(0), R(0)>>],
      [b |-> <<R(0), R(4), R(-1)>>, r |-> <<R(1), R(0), R(4)>>, z |-> <<R(-1), <<1, 4>>>>],
      [b |-> <<<<1, 4>>, R(0), R(4)>>, r |-> <<R(0), R(-1), R(0)>>, z |-> <<R(0), R(1)>>],
      [b |-> <<R(-1), R(-1), R(1)>>, r |-> <<R(4), R(4), R(4)>>, z |-> <<R(4), R(0)>>] }

\* the Spectra object with the given inverse variances, one row each
MakeNoiseSpectra(ivar) ==
    [bands    |-> ModelBands,
     wave     |-> OverlapWave,
     flux     |-> [ch \in {"b", "r", "z"} |->
                      [i \in DOMAIN ivar |-> [k \in DOMAIN OverlapWave[ch] |-> R(10 * i + k)]]],
     ivar     |-> [ch \in {"b", "r", "z"} |-> [i \in DOMAIN ivar |-> ivar[i][ch]]],
     fibermap |-> [i \in DOMAIN ivar |-> [TARGETID |-> 10 + i, EXPID |-> i]]]

InitNoise ==
    /\ pc = "noise_start"
    /\ \E nspec \in 1..MaxSpec : \E ivar \in [1..nspec -> NoiseIvarRows] :
           spectra = MakeNoiseSpectra(ivar)
    /\ \E with_noise \in BOOLEAN : args = [with_noise |-> with_noise]
    /\ ret = NoReturn
    /\ orig = NoSpectra
    /\ cin = NoArgs
    /\ cout = NoResult
    /\ targetids = NoTargetids
    /\ out = NoSpectra
    /\ out2 = NoSpectra
    /\ zbest = <<>>
    /\ model = NoModel
    /\ raised = ""

\* ret = make_cds_spectra(spectra, with_noise)
CallMakeCdsSpectra ==
    /\ pc = "noise_start"
    /\ ret' = make_cds_spectra(spectra, args.with_noise)
    /\ pc' = "cds_spectra_done"
    /\ UNCHANGED <<cin, cout, spectra, orig, targetids, out, out2, zbest, model, args, raised>>

\* ret = make_cds_coaddcam_spec(spectra, with_noise)
CallMakeCdsCoaddcam ==
    /\ pc = "noise_start"
    /\ ret' = make_cds_coaddcam_spec(spectra, args.with_noise)
    /\ pc' = "cds_coaddcam_done"
    /\ UNCHANGED <<cin, cout, spectra, orig, targetids, out, out2, zbest, model, args, raised>>

NextNoise == CallMakeCdsSpectra \/ CallMakeCdsCoaddcam

SpecNoise == InitNoise /\ [][NextNoise]_vars

\* the noise array is 1/sqrt(ivar) where ivar > 0 and the sentinel elsewhere
NoiseOk(noise, ivar, sentinel) ==
    /\ DOMAIN noise = DOMAIN ivar
    /\ \A k \in DOMAIN ivar :
          IF RLess(Zero, ivar[k])
          THEN /\ IsFinite(noise[k])
               /\ RLess(Zero, noise[k])
               /\ RMul(RMul(noise[k], noise[k]), ivar[k]) = R(1)
          ELSE noise[k] = sentinel

\* the first row of the inverse variances of the merged bands
CoaddIvar ==
    [p \in DOMAIN ExpectedCols |-> spectra.ivar[ExpectedCols[p][1]][1][ExpectedCols[p][2]]]

\* every noise array handed out by make_cds_spectra
SpectraNoiseDefined ==
    \A n \in DOMAIN ret.cds :
        ret.cds[n].has_noise =>
            /\ \A i \in DOMAIN ret.cds[n].orignoise :
                  NoiseOk(ret.cds[n].orignoise[i], spectra.ivar[ret.cds[n].name][i], Zero)
            /\ NoiseOk(ret.cds[n].plotnoise, spectra.ivar[ret.cds[n].name][1], Zero)

NoBadSqrt == \A v \in ret.sqrtargs : RLess(Zero, v)

\* C25 as stated: every noise array handed out is 1/sqrt(ivar) at ivar > 0 and
\* a fixed finite sentinel at ivar <= 0, whatever with_noise is, and 1/sqrt is
\* never evaluated at ivar <= 0
C25_NoiseDefinedAlways ==
    /\ pc = "cds_spectra_done" => (SpectraNoiseDefined /\ NoBadSqrt)
    /\ pc = "cds_coaddcam_done" => (NoiseOk(ret.cds.plotnoise, CoaddIvar, R(1)) /\ NoBadSqrt)

\* C25 amended: with with_noise set, every noise array handed out is
\* 1/sqrt(ivar) at ivar > 0 and the sentinel (0 for make_cds_spectra, 1 for
\* make_cds_coaddcam_spec) at ivar <= 0; with with_noise unset make_cds_spectra
\* hands out no noise and make_cds_coaddcam_spec the value 1 at every sample;
\* 1/sqrt is never evaluated at ivar <= 0
C25_NoiseDefined ==
    /\ pc = "cds_spectra_done" =>
          /\ SpectraNoiseDefined
          /\ NoBadSqrt
          /\ \A n \in DOMAIN ret.cds : ret.cds[n].has_noise = args.with_noise
          /\ DOMAIN ret.cds = DOMAIN spectra.bands
    /\ pc = "cds_coaddcam_done" =>
          /\ NoBadSqrt
          /\ IF args.with_noise
             THEN NoiseOk(ret.cds.plotnoise, CoaddIvar, R(1))
             ELSE ret.cds.plotnoise = [k \in DOMAIN CoaddIvar |-> R(1)]

C25_Witness ==
    /\ pc = "cds_spectra_done"
    /\ args.with_noise
    /\ spectra.ivar["b"][1] = <<<<1, 4>>, R(0), R(4)>>
    /\ ret.cds[1].plotnoise = <<R(2), R(0), <<1, 2>>>>
    /\ spectra.ivar["r"][1][2] = R(-1)
    /\ ret.cds[2].orignoise[1][2] = R(0)

----------------------------------------------------------------------------
\* utils_specviewer.py: match_zcat_to_spectra, miniplot_spectrum;
\* plotframes.py: plotspectra up to the model (the Bokeh document built after it
\* reads the arrays)

NaN == <<0, 0>>

\* ww[-1] in place of ww[0]
FirstMatchLast(ww) == ww[Len(ww)]

\* ww[0]
FirstMatch(ww) == ww[1]

\* index_list after the rows 1..n of the spectra; <<>> stands for the RuntimeError
RECURSIVE MatchUpTo(_, _, _)
MatchUpTo(zcat_in, fibermap, n) ==
    IF n = 0 THEN [raised |-> "", index_list |-> <<>>]
    ELSE LET Body(prev) ==
                 IF prev.raised # "" THEN prev
                 ELSE LET ww == WhereIn([k \in DOMAIN zcat_in |-> zcat_in[k].TARGETID],
                                        fibermap[n].TARGETID)
                      IN  IF Len(ww) < 1
                          THEN [raised |-> "RuntimeError", index_list |-> <<>>]
                          ELSE [raised |-> "",
                                index_list |-> Append(prev.index_list, FirstMatch(ww))]
         IN  Body(MatchUpTo(zcat_in, fibermap, n - 1))

\* (zcat_out, index_list), or the exception raised
match_zcat_to_spectra(zcat_in, sp) ==
    LET m == MatchUpTo(zcat_in, sp.fibermap, Len(sp.fibermap))
    IN  [raised     |-> m.raised,
         zcat_out   |-> IF m.raised = "" THEN TakeRows(zcat_in, m.index_list) ELSE <<>>,
         index_list |-> m.index_list]

\* bad = (spectra.ivar[band] == 0.0) | (spectra.mask[band] != 0);
\* spectra.flux[band][bad] = np.nan, for every band, in the caller's arrays
FluxWithNaN(sp) ==
    [band \in DOMAIN sp.flux |->
        IF \E n \in DOMAIN sp.bands : sp.bands[n] = band
        THEN [i \in DOMAIN sp.flux[band] |->
                 [k \in DOMAIN sp.flux[band][i] |->
                     IF sp.ivar[band][i][k] = Zero \/ sp.mask.arr[band][i][k] # 0
                     THEN NaN ELSE sp.flux[band][i][k]]]
        ELSE sp.flux[band]]

\* the model left as given
ModelRowsAsGiven(mflux, kk) == mflux

\* mflux[kk]
ModelRows(mflux, kk) == TakeRows(mflux, kk)

\* plotspectra(spectra, zcatalog=a.zcatalog, model_from_zcat=a.model_from_zcat,
\* model=a.model) with a Spectra object: the spectra after the call, the local
\* variables zcatalog, kk and model, and the zcatalog create_model was called on
plotspectra(sp, a) ==
    LET failed(e, s) == [raised |-> e, spectra |-> s, zcatalog |-> a.zcatalog,
                         kk |-> <<>>, model |-> a.model, created |-> FALSE,
                         created_from |-> <<>>, built |-> NoModel]
    IN  IF sp.mask.isNone THEN failed("TypeError", sp)
        ELSE LET sp1 == [sp EXCEPT !.flux = FluxWithNaN(sp)]
             IN  IF a.zcatalog.isNone
                 THEN [raised |-> "", spectra |-> sp1, zcatalog |-> a.zcatalog,
                       kk |-> <<>>, model |-> a.model, created |-> FALSE,
                       created_from |-> <<>>, built |-> NoModel]
                 ELSE LET m == match_zcat_to_spectra(a.zcatalog.rows, sp1)
                          zc == [isNone |-> FALSE, rows |-> m.zcat_out]
                      IN  IF m.raised # "" THEN failed(m.raised, sp1)
                          ELSE IF ~ a.model.isNone /\ a.model_from_zcat
                          THEN failed("AssertionError", sp1)
                          ELSE IF ~ a.model.isNone
                          THEN IF \E i \in DOMAIN m.index_list :
                                      m.index_list[i] > Len(a.model.mflux)
                               THEN failed("IndexError", sp1)
                               ELSE [raised |-> "", spectra |-> sp1, zcatalog |-> zc,
                                     kk |-> m.index_list,
                                     model |-> [isNone |-> FALSE, mwave |-> a.model.mwave,
                                                mflux |-> ModelRows(a.model.mflux,
                                                                    m.index_list)],
                                     created |-> FALSE, created_from |-> <<>>,
                                     built |-> NoModel]
                          ELSE IF a.model_from_zcat
                          THEN LET cm == create_model(sp1, m.zcat_out)
                               IN  IF cm.raised # "" THEN failed(cm.raised, sp1)
                                   ELSE [raised |-> "", spectra |-> sp1, zcatalog |-> zc,
                                         kk |-> m.index_list,
                                         model |-> [isNone |-> FALSE,
                                                    mwave |-> cm.model_wave,
                                                    mflux |-> cm.mflux],
                                         created |-> TRUE, created_from |-> m.zcat_out,
                                         built |-> [model_wave |-> cm.model_wave,
                                                    mflux |-> cm.mflux,
                                                    computed |-> cm.computed]]
                          ELSE [raised |-> "", spectra |-> sp1, zcatalog |-> zc,
                                kk |-> m.index_list, model |-> a.model,
                                created |-> FALSE, created_from |-> <<>>,
                                built |-> NoModel]

\* miniplot_spectrum(spectra, i_spec, coaddcam=False): the spectra after the
\* call and the data it plots
miniplot_spectrum(sp, i_spec) ==
    IF sp.mask.isNone
    THEN [raised |-> "TypeError", spectra |-> sp, data |-> <<>>]
    ELSE LET sp1 == [sp EXCEPT !.flux = FluxWithNaN(sp)]
         IN  [raised  |-> "",
              spectra |-> sp1,
              data    |-> [n \in DOMAIN sp.bands |->
                              [band |-> sp.bands[n], wave |-> sp.wave[sp.bands[n]],
                               flux |-> sp1.flux[sp.bands[n]][i_spec]]]]

\* the inverse variances and masks of the Spectra object: clean, or with an
\* inverse variance 0 in its first row and a mask bit in its last row, or
\* without mask arrays
ViewProfiles == {"clean", "flagged", "nomask"}

\* the Spectra object with one row per entry of tid
MakeViewSpectra(tid, profile) ==
    [bands    |-> ModelBands,
     wave     |-> OverlapWave,
     flux     |-> [ch \in {"b", "r", "z"} |->
                      [i \in DOMAIN tid |-> [k \in DOMAIN OverlapWave[ch] |-> R(10 * i + k)]]],
     ivar     |-> [ch \in {"b", "r", "z"} |->
                      [i \in DOMAIN tid |-> [k \in DOMAIN OverlapWave[ch] |->
                          IF profile = "flagged" /\ ch = "b" /\ i = 1 /\ k = 1
                          THEN Zero ELSE R(1)]]],
     mask     |-> IF profile = "nomask" THEN NoMask
                  ELSE [isNone |-> FALSE,
                        arr |-> [ch \in {"b", "r", "z"} |->
                                   [i \in DOMAIN tid |-> [k \in DOMAIN OverlapWave[ch] |->
                                       IF profile = "flagged" /\ ch = "r" /\ i = Len(tid)
                                             /\ k = 2
                                       THEN 2 ELSE 0]]]],
     fibermap |-> [i \in DOMAIN tid |-> [TARGETID |-> tid[i], EXPID |-> i]]]

NoZcatalog == [isNone |-> TRUE, rows |-> <<>>]

NoModelArg == [isNone |-> TRUE, mwave |-> <<>>, mflux |-> <<>>]

\* the zcatalog tables: row k has redshift k
Zcatalogs ==
    {[isNone |-> FALSE, rows |-> MakeZbest(tid)] :
        tid \in UNION {[1..n -> ZbestIdVals] : n \in 1..MaxRows}}

\* a model entry-matched to the zcatalog: row k is the model of zcatalog row k
ModelFor(zcatalog) ==
    [isNone |-> FALSE,
     mwave  |-> <<R(1), R(2)>>,
     mflux  |-> [k \in DOMAIN zcatalog.rows |->
                    [TARGETID |-> zcatalog.rows[k].TARGETID, entry |-> k]]]

InitView ==
    /\ pc = "view_start"
    /\ \E nrows \in 1..MaxRows : \E tid \in [1..nrows -> TargetIdVals] :
         \E profile \in ViewProfiles : spectra = MakeViewSpectra(tid, profile)
    /\ \/ \E mfz \in BOOLEAN :
             args = [zcatalog |-> NoZcatalog, model |-> NoModelArg, model_from_zcat |-> mfz]
       \/ \E zc \in Zcatalogs, mfz \in BOOLEAN :
             \E m \in {NoModelArg, ModelFor(zc)} :
                args = [zcatalog |-> zc, model |-> m, model_from_zcat |-> mfz]
    /\ orig = spectra
    /\ ret = NoReturn
    /\ cin = NoArgs
    /\ cout = NoResult
    /\ targetids = NoTargetids
    /\ out = NoSpectra
    /\ out2 = NoSpectra
    /\ zbest = <<>>
    /\ model = NoModel
    /\ raised = ""

\* ret = match_zcat_to_spectra(zcatalog, spectra)
CallMatch ==
    /\ pc = "view_start"
    /\ ~ args.zcatalog.isNone
    /\ \E m \in {match_zcat_to_spectra(args.zcatalog.rows, spectra)} :
           /\ raised' = m.raised
           /\ ret' = [zcat_out |-> m.zcat_out, index_list |-> m.index_list]
           /\ pc' = IF m.raised = "" THEN "match_done" ELSE "match_failed"
    /\ UNCHANGED <<cin, cout, spectra, orig, targetids, out, out2, zbest, model, args>>

\* plotspectra(spectra, zcatalog=..., model_from_zcat=..., model=...)
CallPlotspectra ==
    /\ pc = "view_start"
    /\ \E r \in {plotspectra(spectra, args)} :
           /\ raised' = r.raised
           /\ spectra' = r.spectra
           /\ ret' = [zcatalog |-> r.zcatalog, kk |-> r.kk, model |-> r.model,
                      created |-> r.created]
           /\ zbest' = r.created_from
           /\ model' = r.built
           /\ pc' = IF r.raised = "" THEN "plot_done" ELSE "plot_failed"
    /\ UNCHANGED <<cin, cout, orig, targetids, out, out2, args>>

\* miniplot_spectrum(spectra, i_spec, coaddcam=False)
CallMiniplot(i_spec) ==
    /\ pc = "view_start"
    /\ i_spec \in DOMAIN spectra.fibermap
    /\ \E r \in {miniplot_spectrum(spectra, i_spec)} :
           /\ raised' = r.raised
           /\ spectra' = r.spectra
           /\ ret' = [data |-> r.data]
           /\ pc' = IF r.raised = "" THEN "miniplot_done" ELSE "miniplot_failed"
    /\ UNCHANGED <<cin, cout, orig, targetids, out, out2, zbest, model, args>>

NextView ==
    \/ CallMatch
    \/ CallPlotspectra
    \/ \E i_spec \in {1, Len(spectra.fibermap)} : CallMiniplot(i_spec)

SpecView == InitView /\ [][NextView]_vars

\* the rows of the zcatalog with the given TARGETID
ZcatRowsOf(t) == {k \in DOMAIN args.zcatalog.rows : args.zcatalog.rows[k].TARGETID = t}

\* C26: match_zcat_to_spectra returns one row per spectra row, in spectra row
\* order: row i has the TARGETID of spectra row i and index_list[i] is the first
\* zcat_in row with that TARGETID; it raises RuntimeError and returns nothing
\* if some spectra row has no zcat_in row
C26_MatchZcat ==
    /\ pc = "match_done" =>
          /\ Len(ret.zcat_out) = Len(spectra.fibermap)
          /\ Len(ret.index_list) = Len(spectra.fibermap)
          /\ \A i \in DOMAIN spectra.fibermap :
                /\ ret.zcat_out[i].TARGETID = spectra.fibermap[i].TARGETID
                /\ ret.index_list[i] \in ZcatRowsOf(spectra.fibermap[i].TARGETID)
                /\ \A k \in ZcatRowsOf(spectra.fibermap[i].TARGETID) : ret.index_list[i] <= k
                /\ ret.zcat_out[i] = args.zcatalog.rows[ret.index_list[i]]
    /\ pc = "match_failed" =>
          /\ raised = "RuntimeError"
          /\ ret.zcat_out = <<>>
    /\ pc \in {"match_done", "match_failed"} =>
          (pc = "match_failed" <=>
              \E i \in DOMAIN spectra.fibermap : ZcatRowsOf(spectra.fibermap[i].TARGETID) = {})

C26_Witness ==
    /\ pc = "match_done"
    /\ Len(spectra.fibermap) = 3
    /\ Len(args.zcatalog.rows) = 3
    /\ Cardinality(ZcatRowsOf(22)) = 2
    /\ ret.index_list = <<3, 1, 3>>

\* C28: after plotspectra or miniplot_spectrum (coaddcam=False) returns, the
\* flux arrays of the caller's spectra hold the values they held before
C28_FluxUnchanged ==
    pc \in {"plot_done", "miniplot_done"} => spectra.flux = orig.flux

\* C29: after the zcatalog is matched, a model given by the caller is reordered
\* with the same index list: model row i, zcatalog row i and spectra row i have
\* the same TARGETID; a model built from the zcatalog is built from a zcatalog
\* with one row per spectra row
C29_ModelFollowsZcatalog ==
    (pc = "plot_done" /\ ~ args.zcatalog.isNone) =>
        /\ Len(ret.zcatalog.rows) = Len(spectra.fibermap)
        /\ ~ args.model.isNone =>
              /\ Len(ret.model.mflux) = Len(spectra.fibermap)
              /\ \A i \in DOMAIN spectra.fibermap :
                    /\ ret.model.mflux[i].TARGETID = spectra.fibermap[i].TARGETID
                    /\ ret.zcatalog.rows[i].TARGETID = spectra.fibermap[i].TARGETID
                    /\ ret.zcatalog.rows[i] = args.zcatalog.rows[ret.model.mflux[i].entry]
        /\ (args.model.isNone /\ args.model_from_zcat) =>
              /\ ret.created
              /\ zbest = ret.zcatalog.rows
              /\ Len(zbest) = Len(spectra.fibermap)

C29_Witness ==
    /\ pc = "plot_done"
    /\ ~ args.model.isNone
    /\ Len(spectra.fibermap) = 2
    /\ Len(args.zcatalog.rows) = 3
    /\ ret.kk = <<3, 2>>
    /\ ret.model.mflux[1].entry = 3

----------------------------------------------------------------------------
\* utils_specviewer.py: specviewer_selection

\* np.log10 on the powers of ten the fluxes take
Log10(q) == CHOOSE e \in 0..2 : 10 ^ e = q

\* -2.5*np.log10(flux/transmission)+22.5 where both are > 0, the 0 of np.zeros elsewhere
Mag(flux, transmission) ==
    IF flux > 0 /\ transmission > 0
    THEN RAdd(RMul(<<-5, 2>>, R(Log10(flux \div transmission))), <<45, 2>>)
    ELSE Zero

\* the value of the mask bit asked for (desi_mask[mask])
MaskBit == 2

\* np.where(cond)[0] over the rows 1..n
RECURSIVE RowsWhereUpTo(_, _)
RowsWhereUpTo(cond, n) ==
    IF n = 0 THEN <<>>
    ELSE LET Body(prev) == IF cond[n] THEN Append(prev, n) ELSE prev
         IN  Body(RowsWhereUpTo(cond, n - 1))

RowsWhere(cond) == RowsWhereUpTo(cond, Len(cond))

InRange(x, cut) == RLess(cut[1], x) /\ RLess(x, cut[2])

\* myspecselect.myspecselect(spectra, targets=targetids): the rows whose
\* TARGETID is among the targets
myspecselect(sp, targets) ==
    LET keep == RowsWhere([i \in DOMAIN sp.fibermap |->
                              \E j \in DOMAIN targets : targets[j] = sp.fibermap[i].TARGETID])
    IN  [fibermap |-> TakeRows(sp.fibermap, keep), scores |-> TakeRows(sp.scores, keep)]

\* after a cut that selected the rows w: the function goes on although w is empty
AfterCutNoReturn(st, name, w, message, log) ==
    [st EXCEPT !.evaluated = Append(@, name),
               !.matched   = Append(@, Len(w)),
               !.sp        = IF Len(w) = 0 THEN @
                             ELSE myspecselect(@, [j \in DOMAIN w |-> st.sp.fibermap[w[j]].TARGETID])]

\* after a cut that selected the rows w: return 0 (with a message to the log) if
\* there is none, go on with the spectra of their targets otherwise
AfterCut(st, name, w, message, log) ==
    IF Len(w) = 0
    THEN [st EXCEPT !.evaluated = Append(@, name),
                    !.matched   = Append(@, 0),
                    !.returned  = TRUE,
                    !.log       = IF log THEN Append(@, message) ELSE @]
    ELSE [st EXCEPT !.evaluated = Append(@, name),
                    !.matched   = Append(@, Len(w)),
                    !.sp        = myspecselect(@, [j \in DOMAIN w |->
                                                     st.sp.fibermap[w[j]].TARGETID])]

Active(st) == ~ st.returned /\ st.raised = ""

MaskCut(st, a) ==
    IF ~ Active(st) \/ "mask" \notin a.cuts THEN st
    ELSE AfterCut(st, "mask",
                  RowsWhere([i \in DOMAIN st.sp.fibermap |->
                                (st.sp.fibermap[i].DESI_TARGET \div MaskBit) % 2 = 1]),
                  "No spectra with mask", a.log)

GmagCut(st, a) ==
    IF ~ Active(st) \/ "gmag" \notin a.cuts THEN st
    ELSE AfterCut(st, "gmag",
                  RowsWhere([i \in DOMAIN st.sp.fibermap |->
                                InRange(Mag(st.sp.fibermap[i].FLUX_G,
                                            st.sp.fibermap[i].MW_TRANSMISSION_G), a.gmag_cut)]),
                  "No spectra with g_mag in requested range", a.log)

RmagCut(st, a) ==
    IF ~ Active(st) \/ "rmag" \notin a.cuts THEN st
    ELSE AfterCut(st, "rmag",
                  RowsWhere([i \in DOMAIN st.sp.fibermap |->
                                InRange(Mag(st.sp.fibermap[i].FLUX_R,
                                            st.sp.fibermap[i].MW_TRANSMISSION_R), a.rmag_cut)]),
                  "No spectra with r_mag in requested range", a.log)

SnrCut(st, a, band) ==
    IF ~ Active(st) \/ "snr" \notin a.cuts THEN st
    ELSE AfterCut(st, "snr_" \o band,
                  RowsWhere([i \in DOMAIN st.sp.scores |->
                                InRange(st.sp.scores[i][band], a.snr_cut)]),
                  "No spectra with MEDIAN_CALIB_SNR in requested range", a.log)

Chi2Cut(st, a) ==
    IF ~ Active(st) \/ "chi2" \notin a.cuts THEN st
    ELSE IF a.zbest.isNone THEN [st EXCEPT !.raised = "AssertionError"]
    ELSE LET m == match_zcat_to_spectra(a.zbest.rows, st.sp)
         IN  IF m.raised # "" THEN [st EXCEPT !.raised = m.raised]
             ELSE AfterCut(st, "chi2",
                           RowsWhere([i \in DOMAIN m.zcat_out |->
                                         InRange(m.zcat_out[i].DELTACHI2, a.chi2cut)]),
                           "No target in this pixel with DeltaChi2 in requested range",
                           a.log)

\* the cuts in the order of the code
specviewer_selection(sp, a) ==
    Chi2Cut(SnrCut(SnrCut(SnrCut(RmagCut(GmagCut(MaskCut(
        [sp |-> sp, returned |-> FALSE, raised |-> "", log |-> <<>>,
         evaluated |-> <<>>, matched |-> <<>>], a), a), a), a, "B"), a, "R"), a, "Z"), a)

\* the fibermap, scores and fit values a spectrum may have
RowKinds ==
    { [DESI_TARGET |-> 2, FLUX_G |-> 100, FLUX_R |-> 100, B |-> 5, R |-> 5, Z |-> 5, DELTACHI2 |-> 50],
      [DESI_TARGET |-> 1, FLUX_G |-> 100, FLUX_R |-> 100, B |-> 5, R |-> 5, Z |-> 5, DELTACHI2 |-> 50],
      [DESI_TARGET |-> 3, FLUX_G |-> 1,   FLUX_R |-> 100, B |-> 5, R |-> 5, Z |-> 20, DELTACHI2 |-> 50],
      [DESI_TARGET |-> 2, FLUX_G |-> 0,   FLUX_R |-> 1,   B |-> 5, R |-> 5, Z |-> 5, DELTACHI2 |-> 50],
      [DESI_TARGET |-> 2, FLUX_G |-> 100, FLUX_R |-> 100, B |-> 5, R |-> 0, Z |-> 5, DELTACHI2 |-> 50],
      [DESI_TARGET |-> 2, FLUX_G |-> 100, FLUX_R |-> 100, B |-> 5, R |-> 5, Z |-> 5, DELTACHI2 |-> 5] }

\* the Spectra object with rows of the given kinds and TARGETIDs
MakeSelSpectra(kinds, tid) ==
    [fibermap |-> [i \in DOMAIN kinds |->
                      [TARGETID |-> tid[i], DESI_TARGET |-> kinds[i].DESI_TARGET,
                       FLUX_G |-> kinds[i].FLUX_G, MW_TRANSMISSION_G |-> 1,
                       FLUX_R |-> kinds[i].FLUX_R, MW_TRANSMISSION_R |-> 1]],
     scores   |-> [i \in DOMAIN kinds |->
                      [B |-> R(kinds[i].B), R |-> R(kinds[i].R), Z |-> R(kinds[i].Z)]]]

\* the fit table of these spectra, last spectrum first
MakeSelZbest(kinds, tid) ==
    [isNone |-> FALSE,
     rows   |-> [k \in DOMAIN kinds |->
                    [TARGETID  |-> tid[Len(kinds) + 1 - k],
                     DELTACHI2 |-> R(kinds[Len(kinds) + 1 - k].DELTACHI2)]]]

SelCuts == {"mask", "gmag", "rmag", "snr", "chi2"}

InitSelect ==
    /\ pc = "select_start"
    /\ \E n \in 1..MaxSpec : \E kinds \in [1..n -> RowKinds] :
         \E tid \in {[i \in 1..n |-> 10 + i], [i \in 1..n |-> 11]} :
           /\ spectra = MakeSelSpectra(kinds, tid)
           /\ \E cuts \in SUBSET SelCuts, log \in BOOLEAN :
                \E zb \in {MakeSelZbest(kinds, tid)}
                            \cup (IF "chi2" \in cuts THEN {NoZcatalog} ELSE {}) :
                   args = [cuts |-> cuts, log |-> log, zbest |-> zb,
                           gmag_cut |-> <<R(17), R(20)>>, rmag_cut |-> <<R(17), R(20)>>,
                           snr_cut |-> <<R(1), R(10)>>, chi2cut |-> <<R(10), R(100)>>]
    /\ orig = NoSpectra
    /\ ret = NoReturn
    /\ cin = NoArgs
    /\ cout = NoResult
    /\ targetids = NoTargetids
    /\ out = NoSpectra
    /\ out2 = NoSpectra
    /\ zbest = <<>>
    /\ model = NoModel
    /\ raised = ""

\* ret = specviewer_selection(spectra, log, mask, mask_type, gmag_cut, ...)
CallSelection ==
    /\ pc = "select_start"
    /\ \E st \in {specviewer_selection(spectra, args)} :
           /\ raised' = st.raised
           /\ ret' = [isZero |-> st.returned, spectra |-> st.sp, log |-> st.log,
                      evaluated |-> st.evaluated, matched |-> st.matched]
           /\ pc' = IF st.raised = "" THEN "select_done" ELSE "select_failed"
    /\ UNCHANGED <<cin, cout, spectra, orig, targetids, out, out2, zbest, model, args>>

NextSelect == CallSelection

SpecSelect == InitSelect /\ [][NextSelect]_vars

\* the cuts asked for, in the order of the code
EnabledCuts ==
    SelectSeq(<<"mask", "gmag", "rmag", "snr_B", "snr_R", "snr_Z", "chi2">>,
              LAMBDA c : \/ c \in args.cuts
                         \/ (c \in {"snr_B", "snr_R", "snr_Z"} /\ "snr" \in args.cuts))

----------------------------------------------------------------------------
\* the call out = coadd_targets(spectra) alone
NextOrder == CallCoaddTargets(NoTargetids)

SpecOrder == Init /\ [][NextOrder]_vars

\* the orders in which n exposures can be given
Orders(n) == {sel \in Selections(n) : Len(sel) = n}

\* C30: the coadded flux, inverse variance and resolution of a target, and its
\* OR-combined mask, are what _coadd and the mask loop give for its exposure
\* rows taken in any order
C30_OrderIndependent ==
    pc = "coadded" =>
        \A i \in DOMAIN Requested :
          \A ii \in {Where(orig.fibermap, Requested[i])} :
            Len(ii) >= 2 =>
              \A p \in Orders(Len(ii)) : \A rows \in {TakeRows(ii, p)} :
                \A ch \in DOMAIN orig.wave :
                  /\ \A co \in {_coadd(orig.wave[ch], TakeRows(orig.flux[ch], rows),
                                       TakeRows(orig.ivar[ch], rows),
                                       TakeRows(orig.rdat[ch], rows))} :
                        /\ co.flux = out.flux[ch][i]
                        /\ co.ivar = out.ivar[ch][i]
                        /\ co.rdat = out.rdat[ch][i]
                  /\ ~ orig.mask.isNone =>
                        MaskOrLoop(orig.mask.arr[ch], rows, Len(rows)) = out.mask.arr[ch][i]

\* a target with two exposures of different weights and different masks
C30_Witness ==
    /\ pc = "coadded"
    /\ ~ orig.mask.isNone
    /\ \E i \in DOMAIN Requested :
         \E ii \in {Where(orig.fibermap, Requested[i])} :
            /\ Len(ii) >= 2
            /\ orig.ivar["b"][ii[1]] # orig.ivar["b"][ii[2]]
            /\ orig.mask.arr["b"][ii[1]] # orig.mask.arr["b"][ii[2]]
            /\ out.flux["b"][i] # orig.flux["b"][ii[2]]

====
